---- MODULE Spec2Model ----
(***************************************************************************)
(* CZ-Agent: the query analyzer, the four-stage LangGraph workflow, the    *)
(* tool layer and the mock inventory store of cz_agent_simple.             *)
(*                                                                         *)
(* Text.  A user query is a sequence of characters (a tuple of one-        *)
(* character strings); a CJK character is written as its code point name   *)
(* ("u673a" is U+673A).  Identifiers and messages held in the store and in *)
(* the tool payloads are strings; Str turns a character sequence into a    *)
(* string.  Chinese message literals of the source are written as ASCII    *)
(* glosses, the original is in the comment next to each.                   *)
(* A Python dict is a record, `k in d` is k \in DOMAIN d, and None is the  *)
(* record None.                                                            *)
(***************************************************************************)
EXTENDS Integers, Sequences, FiniteSets, TLC

VARIABLES
    state,      \* the AgentState record threaded through the stages
    pc,         \* position of the invocation in the workflow graph
    calls,      \* tool-layer calls made so far, in order
    now,        \* the wall clock read by datetime.now()
    exc,        \* the exception that escaped the running stage, or "None"
    trace       \* the nodes the compiled graph has run, in order

vars == <<state, pc, calls, now, exc, trace>>

\* ------------------------------------------------------------------ bounds
MaxClock == 1          \* the clock ticks at most this often in one run
MaxFrags == 2          \* a query is a concatenation of at most this many fragments

\* ------------------------------------------------------------ Python values
None == [none |-> TRUE]
NoneStr == "None"      \* None where the field otherwise holds a str

Range(s) == {s[i] : i \in 1..Len(s)}

RECURSIVE Str(_)
Str(s) == IF s = <<>> THEN "" ELSE Head(s) \o Str(Tail(s))

RECURSIVE Join(_, _)
Join(parts, sep) ==
    IF parts = <<>> THEN ""
    ELSE IF Len(parts) = 1 THEN parts[1]
    ELSE parts[1] \o sep \o Join(Tail(parts), sep)

Take(s, n) == SubSeq(s, 1, IF Len(s) < n THEN Len(s) ELSE n)
LastN(s, n) == SubSeq(s, IF Len(s) > n THEN Len(s) - n + 1 ELSE 1, Len(s))

DigitChars == <<"0", "1", "2", "3", "4", "5", "6", "7", "8", "9">>

RECURSIVE Dec(_)
Dec(n) == IF n < 10 THEN DigitChars[n + 1]
          ELSE Dec(n \div 10) \o DigitChars[(n % 10) + 1]

\* f"{n:04d}" and f"{n:03d}"
Pad4(n) == IF n < 10 THEN "000" \o Dec(n)
           ELSE IF n < 100 THEN "00" \o Dec(n)
           ELSE IF n < 1000 THEN "0" \o Dec(n) ELSE Dec(n)
Pad3(n) == IF n < 10 THEN "00" \o Dec(n)
           ELSE IF n < 100 THEN "0" \o Dec(n) ELSE Dec(n)

\* --------------------------------------------------------- inventory store
regions == <<"cn-north", "cn-south">>
azs == <<"az1", "az2">>
rooms == <<"room-01", "room-02", "room-03">>
racks == <<"rack-A01", "rack-A02", "rack-B01", "rack-B02">>
PositionsPerRack == 10
PortsPerSwitch == 48
PortsUp == 20

NumSwitches == Len(regions) * Len(azs) * Len(rooms) * Len(racks)
NumServers == NumSwitches * PositionsPerRack

\* the loop nest of init_mock_data, by the running counter server_id
PositionOf(n) == ((n - 1) % PositionsPerRack) + 1
RackOf(n) == racks[(((n - 1) \div PositionsPerRack) % Len(racks)) + 1]
RoomOf(n) == rooms[(((n - 1) \div (PositionsPerRack * Len(racks))) % Len(rooms)) + 1]
AzOf(n) == azs[(((n - 1) \div (PositionsPerRack * Len(racks) * Len(rooms))) % Len(azs)) + 1]
RegionOf(n) ==
    regions[((n - 1) \div (PositionsPerRack * Len(racks) * Len(rooms) * Len(azs))) + 1]

SrvId(n) == "srv-" \o Pad4(n)
TorSwitchOf(n) == "sw-tor-" \o Pad3(((n - 1) \div 10) + 1)

StatusOf(n) ==
    IF n % 15 = 0 THEN "offline"
    ELSE IF n % 20 = 0 THEN "install_failed"
    ELSE IF n % 25 = 0 THEN "maintenance"
    ELSE "online"

\* ord(region[-1]) : both region names end in "h"
OrdLast(region) == 104

ServerDetails(n) ==
    [server_id |-> SrvId(n),
     hostname |-> "server-" \o RegionOf(n) \o "-" \o AzOf(n) \o "-" \o RoomOf(n)
                    \o "-" \o Pad4(n),
     status |-> StatusOf(n),
     ip_address |-> "10." \o Dec(OrdLast(RegionOf(n)) % 256) \o "." \o Dec(n \div 256)
                      \o "." \o Dec(n % 256),
     hardware |-> [cpu_model |-> "Intel Xeon Gold 6248R", cpu_cores |-> 48,
                   memory_gb |-> 256, disk_gb |-> 2000,
                   network_cards |-> <<"eth0", "eth1", "eth2", "eth3">>],
     location |-> [region |-> RegionOf(n), availability_zone |-> AzOf(n),
                   room |-> RoomOf(n), rack_id |-> RackOf(n),
                   rack_position |-> PositionOf(n)],
     \* datetime.now() - timedelta(days=random.randint(1, 365)): drawn once, then fixed
     created_at |-> "created_at(" \o SrvId(n) \o ")",
     updated_at |-> "updated_at(" \o SrvId(n) \o ")",
     tags |-> [env |-> "prod", tier |-> "compute"]]

OobFailureOf(n) ==
    IF RackOf(n) = "rack-A02" /\ RoomOf(n) = "room-01"
    THEN "rack uplink switch port fault"            \* 机柜上联交换机端口故障
    ELSE IF n % 30 = 0 THEN "BMC NIC fault"         \* BMC网卡故障
    ELSE NoneStr

OobConnectedOf(n) == OobFailureOf(n) = NoneStr

TopologyInfo(n) ==
    [server_id |-> SrvId(n),
     region |-> RegionOf(n), availability_zone |-> AzOf(n), room |-> RoomOf(n),
     rack_id |-> RackOf(n), rack_position |-> PositionOf(n),
     in_band_network |->
        [path |-> <<SrvId(n), TorSwitchOf(n),
                    "sw-agg-" \o RegionOf(n) \o "-" \o AzOf(n),
                    "sw-core-" \o RegionOf(n)>>,
         status |-> "connected"],
     out_of_band_network |->
        [path |-> <<SrvId(n) \o "-bmc", TorSwitchOf(n) \o "-oob",
                    "sw-oob-" \o RoomOf(n), "sw-oob-core">>,
         status |-> IF OobConnectedOf(n) THEN "connected" ELSE "disconnected",
         last_hop_reachable |->
            IF OobConnectedOf(n) THEN NoneStr ELSE TorSwitchOf(n) \o "-oob"],
     uplink_switches |-> <<TorSwitchOf(n)>>,
     in_band_connectivity |-> [is_connected |-> TRUE, last_check_time |-> "init"],
     out_of_band_connectivity |->
        [is_connected |-> OobConnectedOf(n), last_check_time |-> "init",
         failure_reason |-> OobFailureOf(n)]]

\* the three canned logs; error_summary is a character sequence because
\* analyze_installation_failure searches it for substrings
HardwareSummary ==      \* 硬件故障：磁盘缺失
    <<"u786c", "u4ef6", "u6545", "u969c", "uff1a", "u78c1", "u76d8", "u7f3a", "u5931">>
NetworkSummary ==       \* 网络配置错误：DHCP失败
    <<"u7f51", "u7edc", "u914d", "u7f6e", "u9519", "u8bef", "uff1a", "D", "H", "C", "P",
      "u5931", "u8d25">>
SoftwareSummary ==      \* 软件配置错误：包依赖冲突
    <<"u8f6f", "u4ef6", "u914d", "u7f6e", "u9519", "u8bef", "uff1a", "u5305", "u4f9d",
      "u8d56", "u51b2", "u7a81">>

\* the details dict of an entry is read by no stage and is left out
LogEntry(ts, level, message, component) ==
    [timestamp |-> ts, level |-> level, message |-> message, component |-> component]

InstallationLog(n) ==
    LET start == "init-2h"
        hw == n % 40 = 0
        net == ~hw /\ n % 60 = 0
    IN [server_id |-> SrvId(n),
        start_time |-> start,
        end_time |-> start \o "+30m",
        status |-> "failed",
        logs |->
          IF hw THEN
            <<LogEntry(start, "INFO", "install flow started", "installer"),
              LogEntry(start \o "+5m", "ERROR", "disk check failed: /dev/sda not found",
                       "disk-check"),
              LogEntry(start \o "+6m", "ERROR", "hardware check failed, abort",
                       "installer")>>
          ELSE IF net THEN
            <<LogEntry(start, "INFO", "install flow started", "installer"),
              LogEntry(start \o "+10m", "ERROR", "network setup failed: DHCP timeout",
                       "network-setup"),
              LogEntry(start \o "+11m", "ERROR", "no IP address, install failed",
                       "installer")>>
          ELSE
            <<LogEntry(start, "INFO", "install flow started", "installer"),
              LogEntry(start \o "+20m", "ERROR", "package install failed: conflict",
                       "package-installer")>>,
        error_summary |-> IF hw THEN HardwareSummary
                          ELSE IF net THEN NetworkSummary ELSE SoftwareSummary]

\* the four module-level dicts after init_mock_data(); *_KEYS is insertion order
SERVER_KEYS == [n \in 1..NumServers |-> SrvId(n)]
SeqNoOf(id) == CHOOSE n \in 1..NumServers : SrvId(n) = id
MOCK_SERVERS == [id \in Range(SERVER_KEYS) |-> ServerDetails(SeqNoOf(id))]
MOCK_TOPOLOGIES == [id \in Range(SERVER_KEYS) |-> TopologyInfo(SeqNoOf(id))]
\* the log created under `status != ServerStatus.ONLINE`
MOCK_INSTALLATION_LOGSMutant ==
    [id \in {SrvId(n) : n \in {m \in 1..NumServers : StatusOf(m) # "online"}}
        |-> <<InstallationLog(SeqNoOf(id))>>]

MOCK_INSTALLATION_LOGS ==
    [id \in {SrvId(n) : n \in {m \in 1..NumServers : StatusOf(m) = "install_failed"}}
        |-> <<InstallationLog(SeqNoOf(id))>>]

SWITCH_KEYS == [k \in 1..NumSwitches |-> "sw-tor-" \o Pad3(k)]
SwitchNoOf(id) == CHOOSE k \in 1..NumSwitches : SWITCH_KEYS[k] = id
SwitchInfo(k) ==
    LET first == (k - 1) * PositionsPerRack + 1
    IN [switch_id |-> SWITCH_KEYS[k],
        name |-> "ToR-" \o RegionOf(first) \o "-" \o AzOf(first) \o "-" \o RoomOf(first)
                   \o "-" \o RackOf(first),
        model |-> "Cisco Nexus 9300",
        status |-> "active",
        location |-> [region |-> RegionOf(first), availability_zone |-> AzOf(first),
                      room |-> RoomOf(first), rack_id |-> RackOf(first),
                      rack_position |-> 0],
        ports |-> [p \in 1..PortsPerSwitch |->
                     [port_number |-> p,
                      status |-> IF p <= PortsUp THEN "up" ELSE "down",
                      connected_device |->
                         IF p <= PositionsPerRack THEN SrvId(first + p - 1) ELSE NoneStr]],
        connected_servers |-> [p \in 1..PositionsPerRack |-> SrvId(first + p - 1)],
        uplink_switch |-> "sw-agg-" \o RegionOf(first) \o "-" \o AzOf(first) \o "-"
                            \o RoomOf(first)]
MOCK_SWITCHES == [id \in Range(SWITCH_KEYS) |-> SwitchInfo(SwitchNoOf(id))]

\* ---------------------------------------------------------------- tool layer
\* `kw in text` on character sequences
Contains(text, kw) ==
    \E i \in 1..(Len(text) - Len(kw) + 1) : SubSeq(text, i, i + Len(kw) - 1) = kw

AllSeqNos == [n \in 1..NumServers |-> n]

ServerSummary(n) ==
    [server_id |-> SrvId(n),
     hostname |-> ServerDetails(n).hostname,
     status |-> StatusOf(n),
     ip_address |-> ServerDetails(n).ip_address,
     location |-> [region |-> RegionOf(n), az |-> AzOf(n), room |-> RoomOf(n),
                   rack |-> RackOf(n), position |-> PositionOf(n)]]

\* filters are NoneStr when absent; `if status and ...` skips an absent filter
list_servers(status, region, room, rack) ==
    LET Keep(n) == /\ (status # NoneStr => StatusOf(n) = status)
                   /\ (region # NoneStr => RegionOf(n) = region)
                   /\ (room # NoneStr => RoomOf(n) = room)
                   /\ (rack # NoneStr => RackOf(n) = rack)
        kept == SelectSeq(AllSeqNos, Keep)
    IN [total |-> Len(kept),
        servers |-> [i \in 1..Len(kept) |-> ServerSummary(kept[i])]]

get_server_details(server_id) ==
    IF server_id \notin DOMAIN MOCK_SERVERS
    THEN [error |-> "server " \o server_id \o " does not exist",   \* 服务器 {id} 不存在
          available_ids |-> Take(SERVER_KEYS, 5)]
    ELSE LET server == MOCK_SERVERS[server_id]
         IN [server_id |-> server.server_id,
             hostname |-> server.hostname,
             status |-> server.status,
             ip_address |-> server.ip_address,
             hardware |-> server.hardware,
             location |-> server.location,
             created_at |-> server.created_at,
             updated_at |-> server.updated_at,
             tags |-> server.tags]

\* the tools that read MOCK_TOPOLOGIES take the dict as `topologies`
get_server_topology(topologies, server_id) ==
    IF server_id \notin DOMAIN topologies
    THEN [error |-> "topology of server " \o server_id \o " does not exist",
          available_ids |-> Take(SERVER_KEYS, 5)]
    ELSE LET topology == topologies[server_id]
         IN [server_id |-> topology.server_id,
             location |-> [region |-> topology.region,
                           availability_zone |-> topology.availability_zone,
                           room |-> topology.room,
                           rack_id |-> topology.rack_id,
                           rack_position |-> topology.rack_position],
             in_band_network |->
                [path |-> topology.in_band_network.path,
                 status |-> topology.in_band_network.status,
                 connectivity |->
                    [is_connected |-> topology.in_band_connectivity.is_connected,
                     last_check |-> topology.in_band_connectivity.last_check_time]],
             out_of_band_network |->
                [path |-> topology.out_of_band_network.path,
                 status |-> topology.out_of_band_network.status,
                 last_hop_reachable |-> topology.out_of_band_network.last_hop_reachable,
                 connectivity |->
                    [is_connected |-> topology.out_of_band_connectivity.is_connected,
                     last_check |-> topology.out_of_band_connectivity.last_check_time,
                     failure_reason |->
                        topology.out_of_band_connectivity.failure_reason]],
             uplink_switches |-> topology.uplink_switches]

\* sorted(rack_servers, key=position): stable, so insertion order within a position
RECURSIVE SortedByPosition(_, _)
SortedByPosition(members, p) ==
    IF p > PositionsPerRack THEN <<>>
    ELSE LET At(n) == PositionOf(n) = p
         IN SelectSeq(members, At) \o SortedByPosition(members, p + 1)

RackAlert == "rack OOB network widely down, possibly an uplink switch problem"
    \* 机柜带外网络大面积故障，可能是上联交换机问题
RackAction == "check the rack OOB uplink switch"       \* 检查机柜带外网络上联交换机

\* the threshold test written with >=
AlertTestMutant(connected, total) == 5 * connected <= total

\* oob_failure_rate = 1 - connected/total > 0.8, i.e. 5 * connected < total
AlertTest(connected, total) == 5 * connected < total

\* the servers are held by sequence number, in the insertion order of the dict
get_rack_topology(topologies, rack_id) ==
    LET InRack(n) == topologies[SERVER_KEYS[n]].rack_id = rack_id
        members == SelectSeq(AllSeqNos, InRack)
        IbUp(n) == topologies[SERVER_KEYS[n]].in_band_connectivity.is_connected
        OobUp(n) == topologies[SERVER_KEYS[n]].out_of_band_connectivity.is_connected
        ordered == SortedByPosition(members, 1)
        total_servers == Len(members)
        ib_connected_count == Len(SelectSeq(members, IbUp))
        oob_connected_count == Len(SelectSeq(members, OobUp))
        analysis ==
            [rack_id |-> rack_id,
             total_servers |-> total_servers,
             in_band_connected |-> ib_connected_count,
             out_of_band_connected |-> oob_connected_count,
             servers |-> [i \in 1..Len(ordered) |->
                            [server_id |-> SERVER_KEYS[ordered[i]],
                             position |-> topologies[SERVER_KEYS[ordered[i]]].rack_position,
                             in_band_connected |-> IbUp(ordered[i]),
                             out_of_band_connected |-> OobUp(ordered[i])]]]
    IN IF members = <<>>
       THEN [error |-> "rack " \o rack_id \o " does not exist or has no servers",
             \* list(set(...))[:5]: all four rack ids, in hash order
             available_racks |-> racks]
       ELSE IF AlertTest(oob_connected_count, total_servers)
       THEN [k \in DOMAIN analysis \cup {"alert", "recommended_action"} |->
               IF k = "alert" THEN RackAlert
               ELSE IF k = "recommended_action" THEN RackAction
               ELSE analysis[k]]
       ELSE analysis

\* the not-found payload listing every switch id instead of the first five
get_switch_infoMutant(switch_id) ==
    [error |-> "switch " \o switch_id \o " does not exist",
     available_ids |-> SWITCH_KEYS]

get_switch_info(switch_id) ==
    IF switch_id \notin DOMAIN MOCK_SWITCHES
    THEN [error |-> "switch " \o switch_id \o " does not exist",   \* 交换机 {id} 不存在
          available_ids |-> Take(SWITCH_KEYS, 5)]
    ELSE LET switch == MOCK_SWITCHES[switch_id]
             Up(p) == p.status = "up"
             Down(p) == p.status = "down"
         IN [switch_id |-> switch.switch_id,
             name |-> switch.name,
             model |-> switch.model,
             status |-> switch.status,
             location |-> [region |-> switch.location.region,
                           availability_zone |-> switch.location.availability_zone,
                           room |-> switch.location.room,
                           rack_id |-> switch.location.rack_id],
             port_summary |-> [total |-> Len(switch.ports),
                               up |-> Len(SelectSeq(switch.ports, Up)),
                               down |-> Len(SelectSeq(switch.ports, Down))],
             connected_servers |-> switch.connected_servers,
             uplink_switch |-> switch.uplink_switch]

NoLogsMessage == "this server has no installation logs"     \* 该服务器没有安装日志
NoLogFoundMessage == "no installation log found"            \* 没有找到安装日志

get_installation_logs(server_id) ==
    IF server_id \notin DOMAIN MOCK_INSTALLATION_LOGS
    THEN IF server_id \notin DOMAIN MOCK_SERVERS
         THEN [error |-> "server " \o server_id \o " does not exist"]
         ELSE [server_id |-> server_id,
               message |-> NoLogsMessage,
               server_status |-> MOCK_SERVERS[server_id].status]
    ELSE LET logs == MOCK_INSTALLATION_LOGS[server_id]
         IN IF logs # <<>>
            THEN LET latest_log == logs[Len(logs)]
                 IN [server_id |-> server_id,
                     installation |->
                        [start_time |-> latest_log.start_time,
                         end_time |-> latest_log.end_time,
                         status |-> latest_log.status,
                         error_summary |-> latest_log.error_summary,
                         logs |-> latest_log.logs]]
            ELSE [server_id |-> server_id, message |-> NoLogFoundMessage]

kw_hardware_fault == <<"u786c", "u4ef6", "u6545", "u969c">>                     \* 硬件故障
kw_network_config_error == <<"u7f51", "u7edc", "u914d", "u7f6e", "u9519", "u8bef">>  \* 网络配置错误
kw_software_config_error == <<"u8f6f", "u4ef6", "u914d", "u7f6e", "u9519", "u8bef">> \* 软件配置错误

InfrastructureCause == "possibly an infrastructure problem"    \* 可能是基础设施问题
CompositeNextSteps ==
    <<"apply the recommended fix", "retry the installation",
      "if the problem persists, contact support">>

\* the note and the action appended after the log-derived recommendations
BatchRecommendationsMutant(rack_analysis, recommendations) ==
    recommendations
      \o <<"note: " \o rack_analysis.alert, rack_analysis.recommended_action>>

\* recommendations.insert(0, f"注意：{alert}"); recommendations.insert(1, action)
BatchRecommendations(rack_analysis, recommendations) ==
    <<"note: " \o rack_analysis.alert, rack_analysis.recommended_action>>
      \o recommendations

\* the status test comparing the ServerStatus member with the string
\* 'install_failed': never equal, every existing server gets the message
analyze_installation_failureMutant(topologies, server_id, clock) ==
    IF server_id \notin DOMAIN MOCK_SERVERS
    THEN [error |-> "server " \o server_id \o " does not exist"]
    ELSE [server_id |-> server_id,
          message |-> "server status is " \o MOCK_SERVERS[server_id].status
                        \o ", not install_failed"]

analyze_installation_failure(topologies, server_id, clock) ==
    IF server_id \notin DOMAIN MOCK_SERVERS
    THEN [error |-> "server " \o server_id \o " does not exist"]
    ELSE IF MOCK_SERVERS[server_id].status # "install_failed"
    THEN [server_id |-> server_id,
          \* 服务器当前状态为 {status}，不是安装失败状态
          message |-> "server status is " \o MOCK_SERVERS[server_id].status
                        \o ", not install_failed"]
    ELSE
    LET server == MOCK_SERVERS[server_id]
        has_logs == /\ server_id \in DOMAIN MOCK_INSTALLATION_LOGS
                    /\ MOCK_INSTALLATION_LOGS[server_id] # <<>>
        latest_log == LET l == MOCK_INSTALLATION_LOGS[server_id] IN l[Len(l)]
        IsError(e) == e.level = "ERROR"
        error_logs == SelectSeq(latest_log.logs, IsError)
        has_topology == server_id \in DOMAIN topologies
        topology == topologies[server_id]
        summary == latest_log.error_summary
        by_log ==
            IF ~has_logs THEN [root_cause |-> "unknown", recs |-> <<>>]   \* 未知
            ELSE IF Contains(summary, kw_hardware_fault)
            THEN [root_cause |-> "hardware fault",                          \* 硬件故障
                  recs |-> <<"replace the faulty part", "run hardware diagnostics",
                             "check the hardware compatibility list">>]
            ELSE IF Contains(summary, kw_network_config_error)
            THEN [root_cause |-> "network configuration problem",          \* 网络配置问题
                  recs |-> <<"check the DHCP server", "verify the VLAN configuration",
                             "check the switch port configuration",
                             "check the cable">>]
            ELSE IF Contains(summary, kw_software_config_error)
            THEN [root_cause |-> "software dependency problem",            \* 软件依赖问题
                  recs |-> <<"update the package sources",
                             "check package version compatibility",
                             "clean the package cache and retry",
                             "use a fallback package source">>]
            ELSE [root_cause |-> "unknown", recs |-> <<>>]
        rack_analysis == get_rack_topology(topologies, topology.rack_id)
        batch == has_topology /\ "alert" \in DOMAIN rack_analysis
        recommendations ==
            IF batch THEN BatchRecommendations(rack_analysis, by_log.recs)
            ELSE by_log.recs
        root_cause == IF batch THEN InfrastructureCause ELSE by_log.root_cause
        present ==
            {"server_id", "analysis_time", "server_status", "diagnosis"}
              \cup (IF has_logs THEN {"error_summary", "error_count", "first_error"}
                    ELSE {})
              \cup (IF has_topology THEN {"network_status", "uplink_switch"} ELSE {})
              \cup (IF has_topology /\ topology.out_of_band_connectivity.failure_reason
                                          # NoneStr
                    THEN {"oob_failure_reason"} ELSE {})
        full ==
            [server_id |-> server_id,
             analysis_time |-> "t" \o Dec(clock),       \* datetime.now().isoformat()
             server_status |-> server.status,
             error_summary |-> summary,
             error_count |-> Len(error_logs),
             first_error |-> IF error_logs # <<>> THEN error_logs[1].message ELSE NoneStr,
             network_status |->
                [in_band |-> IF topology.in_band_connectivity.is_connected
                             THEN "connected" ELSE "disconnected",
                 out_of_band |-> IF topology.out_of_band_connectivity.is_connected
                                 THEN "connected" ELSE "disconnected"],
             oob_failure_reason |-> topology.out_of_band_connectivity.failure_reason,
             uplink_switch |-> [switch_id |-> topology.uplink_switches[1],
                                status |-> MOCK_SWITCHES[topology.uplink_switches[1]].status],
             diagnosis |->
                [root_cause |-> root_cause,
                 confidence |-> IF recommendations # <<>> THEN "high" ELSE "low",
                 recommendations |-> recommendations,
                 next_steps |-> CompositeNextSteps]]
    IN [k \in present |-> full[k]]

\* ------------------------------------------------------------ query analyzer
LowerLetters == {"a", "b", "c", "d", "e", "f", "g", "h", "i", "j", "k", "l", "m",
                 "n", "o", "p", "q", "r", "s", "t", "u", "v", "w", "x", "y", "z"}
UpperLetters == {"A", "B", "C", "D", "E", "F", "G", "H", "I", "J", "K", "L", "M",
                 "N", "O", "P", "Q", "R", "S", "T", "U", "V", "W", "X", "Y", "Z"}
Digits == Range(DigitChars)
AlnumChars == LowerLetters \cup UpperLetters \cup Digits         \* [a-zA-Z0-9]
\* characters of the model's alphabet that \w does not match; every other
\* character (letters, digits, "_", CJK ideographs) is a word character
NonWordChars == {"-", " ", "?", ":", ",", ".", "uff1a", "uff0c", "uff1f", "u3002"}

LowerChar(c) ==
    CASE c = "A" -> "a" [] c = "B" -> "b" [] c = "C" -> "c" [] c = "D" -> "d"
      [] c = "E" -> "e" [] c = "F" -> "f" [] c = "G" -> "g" [] c = "H" -> "h"
      [] c = "I" -> "i" [] c = "J" -> "j" [] c = "K" -> "k" [] c = "L" -> "l"
      [] c = "M" -> "m" [] c = "N" -> "n" [] c = "O" -> "o" [] c = "P" -> "p"
      [] c = "Q" -> "q" [] c = "R" -> "r" [] c = "S" -> "s" [] c = "T" -> "t"
      [] c = "U" -> "u" [] c = "V" -> "v" [] c = "W" -> "w" [] c = "X" -> "x"
      [] c = "Y" -> "y" [] c = "Z" -> "z" [] OTHER -> c

\* str.lower()
Lower(q) == [i \in 1..Len(q) |-> LowerChar(q[i])]

FaultKeywords ==       \* 安装失败, 装机失败, 失败原因, 故障诊断, 分析失败
    {<<"u5b89", "u88c5", "u5931", "u8d25">>,
     <<"u88c5", "u673a", "u5931", "u8d25">>,
     <<"u5931", "u8d25", "u539f", "u56e0">>,
     <<"u6545", "u969c", "u8bca", "u65ad">>,
     <<"u5206", "u6790", "u5931", "u8d25">>}
LogKeywords ==       \* 装机日志, 安装日志, 日志
    {<<"u88c5", "u673a", "u65e5", "u5fd7">>,
     <<"u5b89", "u88c5", "u65e5", "u5fd7">>,
     <<"u65e5", "u5fd7">>}
TopologyKeywords ==       \* 拓扑, 网络连接, 连通性, 带内, 带外
    {<<"u62d3", "u6251">>,
     <<"u7f51", "u7edc", "u8fde", "u63a5">>,
     <<"u8fde", "u901a", "u6027">>,
     <<"u5e26", "u5185">>,
     <<"u5e26", "u5916">>}
SwitchKeywords ==       \* 交换机, switch
    {<<"u4ea4", "u6362", "u673a">>,
     <<"s", "w", "i", "t", "c", "h">>}
ListKeywords ==       \* 服务器列表, 所有服务器, 查询服务器, 查看服务器, 显示服务器, 查看
    {<<"u670d", "u52a1", "u5668", "u5217", "u8868">>,
     <<"u6240", "u6709", "u670d", "u52a1", "u5668">>,
     <<"u67e5", "u8be2", "u670d", "u52a1", "u5668">>,
     <<"u67e5", "u770b", "u670d", "u52a1", "u5668">>,
     <<"u663e", "u793a", "u670d", "u52a1", "u5668">>,
     <<"u67e5", "u770b">>}
kw_rack_cn == <<"u673a", "u67dc">>       \* 机柜
kw_rack == <<"r", "a", "c", "k">>       \* rack
kw_rack_dash == <<"r", "a", "c", "k", "-">>       \* rack-
kw_server_cn == <<"u670d", "u52a1", "u5668">>       \* 服务器
kw_online_cn == <<"u5728", "u7ebf">>       \* 在线
kw_online == <<"o", "n", "l", "i", "n", "e">>       \* online
kw_offline_cn == <<"u79bb", "u7ebf">>       \* 离线
kw_offline == <<"o", "f", "f", "l", "i", "n", "e">>       \* offline
kw_fault_cn == <<"u6545", "u969c">>       \* 故障
kw_failed == <<"f", "a", "i", "l", "e", "d">>       \* failed
lit_srv == <<"s", "r", "v", "-">>       \* srv-
lit_server == <<"s", "e", "r", "v", "e", "r", "-">>       \* server-
lit_sw == <<"s", "w", "-">>       \* sw-
lit_switch == <<"s", "w", "i", "t", "c", "h", "-">>       \* switch-

AnyIn(keywords, text) == \E kw \in keywords : Contains(text, kw)

\* the literal lit stands at position i of q (compared case-insensitively when ic)
LitAt(q, i, lit, ic) ==
    /\ i + Len(lit) - 1 <= Len(q)
    /\ IF ic THEN Lower(SubSeq(q, i, i + Len(lit) - 1)) = lit
       ELSE SubSeq(q, i, i + Len(lit) - 1) = lit

\* end of the longest run of characters in S (resp. outside S) that starts at j;
\* j - 1 when the run is empty
RunEndIn(q, j, S) ==
    CHOOSE e \in (j - 1)..Len(q) :
        /\ \A k \in j..e : q[k] \in S
        /\ (e = Len(q) \/ q[e + 1] \notin S)
RunEndNotIn(q, j, S) ==
    CHOOSE e \in (j - 1)..Len(q) :
        /\ \A k \in j..e : q[k] \notin S
        /\ (e = Len(q) \/ q[e + 1] \in S)

\* re.search: the match at the leftmost position where the pattern matches;
\* EndAt(i) is the end of the match starting at i, 0 when there is none
FirstMatch(q, EndAt(_)) ==
    IF \E i \in 1..Len(q) : EndAt(i) # 0
    THEN LET i == CHOOSE i \in 1..Len(q) :
                    EndAt(i) # 0 /\ \A j \in 1..(i - 1) : EndAt(j) = 0
         IN [found |-> TRUE, from |-> i, to |-> EndAt(i)]
    ELSE [found |-> FALSE, from |-> 0, to |-> 0]

\* lit followed by one or more characters of S
LitRunEnd(q, i, lit, ic, S) ==
    IF LitAt(q, i, lit, ic) /\ RunEndIn(q, i + Len(lit), S) >= i + Len(lit)
    THEN RunEndIn(q, i + Len(lit), S) ELSE 0

\* (srv-\d+|server-\d+) compiled without re.IGNORECASE
ServerIdEndAtMutant(q, i) ==
    IF LitRunEnd(q, i, lit_srv, FALSE, Digits) # 0
    THEN LitRunEnd(q, i, lit_srv, FALSE, Digits)
    ELSE LitRunEnd(q, i, lit_server, FALSE, Digits)

\* (srv-\d+|server-\d+), re.IGNORECASE
ServerIdEndAt(q, i) ==
    IF LitRunEnd(q, i, lit_srv, TRUE, Digits) # 0
    THEN LitRunEnd(q, i, lit_srv, TRUE, Digits)
    ELSE LitRunEnd(q, i, lit_server, TRUE, Digits)

\* (rack-[a-zA-Z0-9]+), case-sensitive
RackIdEndAt(q, i) == LitRunEnd(q, i, kw_rack_dash, FALSE, AlnumChars)

\* 机柜([a-zA-Z0-9]+)
RackCnEndAt(q, i) == LitRunEnd(q, i, kw_rack_cn, FALSE, AlnumChars)

\* (sw-\w+-\d+|switch-\w+), re.IGNORECASE.  \w never matches "-", so the greedy
\* \w+ of the first alternative can only stop at the end of the word run
SwitchIdEndAt(q, i) ==
    LET w == RunEndNotIn(q, i + Len(lit_sw), NonWordChars)
        d == RunEndIn(q, w + 2, Digits)
        s == RunEndNotIn(q, i + Len(lit_switch), NonWordChars)
    IN IF /\ LitAt(q, i, lit_sw, TRUE)
          /\ w >= i + Len(lit_sw)
          /\ w + 2 <= Len(q)
          /\ q[w + 1] = "-"
          /\ d >= w + 2
       THEN d
       ELSE IF LitAt(q, i, lit_switch, TRUE) /\ s >= i + Len(lit_switch)
       THEN s
       ELSE 0

unknown_intent == "unknown"

\* the entities dict: only the keys that were extracted
ExtractEntities(user_query) ==
    LET user_query_lower == Lower(user_query)
        SrvEnd(i) == ServerIdEndAt(user_query, i)
        RackEnd(i) == RackIdEndAt(user_query, i)
        RackCnEnd(i) == RackCnEndAt(user_query, i)
        SwEnd(i) == SwitchIdEndAt(user_query, i)
        server_id_match == FirstMatch(user_query, SrvEnd)
        rack_dash == Contains(user_query_lower, kw_rack_dash)
        rack_id_match == FirstMatch(user_query, RackEnd)
        rack_cn_match == FirstMatch(user_query, RackCnEnd)
        switch_id_match == FirstMatch(user_query, SwEnd)
        rack_found ==
            IF rack_dash THEN rack_id_match.found
            ELSE Contains(user_query, kw_rack_cn) /\ rack_cn_match.found
        rack_value ==
            IF rack_dash
            THEN Str(SubSeq(user_query, rack_id_match.from, rack_id_match.to))
            ELSE "rack-" \o Str(SubSeq(user_query, rack_cn_match.from + Len(kw_rack_cn),
                                       rack_cn_match.to))
        keys == (IF server_id_match.found THEN {"server_id"} ELSE {})
                  \cup (IF rack_found THEN {"rack_id"} ELSE {})
                  \cup (IF switch_id_match.found THEN {"switch_id"} ELSE {})
    IN [k \in keys |->
          IF k = "server_id"
          THEN Str(SubSeq(user_query, server_id_match.from, server_id_match.to))
          ELSE IF k = "rack_id" THEN rack_value
          ELSE Str(SubSeq(user_query, switch_id_match.from, switch_id_match.to))]

\* the confidence constants, in hundredths
ConfFault == 95
ConfKeyword == 90
ConfListing == 85
ConfServerId == 80
ConfUnknown == 0

\* the intent cascade choosing rack_analysis by the extracted rack id instead of
\* the rack words
ClassifyIntentRackMutant(user_query, entities) ==
    LET q == Lower(user_query)
        status_filter ==
            IF Contains(q, kw_online_cn) \/ Contains(q, kw_online) THEN "online"
            ELSE IF Contains(q, kw_offline_cn) \/ Contains(q, kw_offline) THEN "offline"
            ELSE IF Contains(q, kw_fault_cn) \/ Contains(q, kw_failed)
            THEN "install_failed"
            ELSE NoneStr
        no_filters == [k \in {} |-> NoneStr]
    IN IF AnyIn(FaultKeywords, q)
       THEN [intent |-> "fault_diagnosis", confidence |-> ConfFault, filters |-> no_filters]
       ELSE IF AnyIn(LogKeywords, q)
       THEN [intent |-> "installation_log", confidence |-> ConfKeyword,
             filters |-> no_filters]
       ELSE IF AnyIn(TopologyKeywords, q)
       THEN [intent |-> IF "rack_id" \in DOMAIN entities
                        THEN "rack_analysis" ELSE "server_topology",
             confidence |-> ConfKeyword, filters |-> no_filters]
       ELSE IF AnyIn(SwitchKeywords, q)
       THEN [intent |-> "switch_info", confidence |-> ConfKeyword, filters |-> no_filters]
       ELSE IF AnyIn(ListKeywords, q) /\ Contains(q, kw_server_cn)
       THEN [intent |-> "server_info", confidence |-> ConfListing,
             filters |-> IF status_filter = NoneStr THEN no_filters
                         ELSE [status |-> status_filter]]
       ELSE IF "server_id" \in DOMAIN entities
       THEN [intent |-> "server_info", confidence |-> ConfServerId, filters |-> no_filters]
       ELSE [intent |-> unknown_intent, confidence |-> ConfUnknown, filters |-> no_filters]

\* the intent cascade with the offline words tested before the online words
ClassifyIntentFilterMutant(user_query, entities) ==
    LET q == Lower(user_query)
        status_filter ==
            IF Contains(q, kw_offline_cn) \/ Contains(q, kw_offline) THEN "offline"
            ELSE IF Contains(q, kw_online_cn) \/ Contains(q, kw_online) THEN "online"
            ELSE IF Contains(q, kw_fault_cn) \/ Contains(q, kw_failed)
            THEN "install_failed"
            ELSE NoneStr
        no_filters == [k \in {} |-> NoneStr]
    IN IF AnyIn(FaultKeywords, q)
       THEN [intent |-> "fault_diagnosis", confidence |-> ConfFault, filters |-> no_filters]
       ELSE IF AnyIn(LogKeywords, q)
       THEN [intent |-> "installation_log", confidence |-> ConfKeyword,
             filters |-> no_filters]
       ELSE IF AnyIn(TopologyKeywords, q)
       THEN [intent |-> IF Contains(q, kw_rack_cn) \/ Contains(q, kw_rack)
                        THEN "rack_analysis" ELSE "server_topology",
             confidence |-> ConfKeyword, filters |-> no_filters]
       ELSE IF AnyIn(SwitchKeywords, q)
       THEN [intent |-> "switch_info", confidence |-> ConfKeyword, filters |-> no_filters]
       ELSE IF AnyIn(ListKeywords, q) /\ Contains(q, kw_server_cn)
       THEN [intent |-> "server_info", confidence |-> ConfListing,
             filters |-> IF status_filter = NoneStr THEN no_filters
                         ELSE [status |-> status_filter]]
       ELSE IF "server_id" \in DOMAIN entities
       THEN [intent |-> "server_info", confidence |-> ConfServerId, filters |-> no_filters]
       ELSE [intent |-> unknown_intent, confidence |-> ConfUnknown, filters |-> no_filters]

\* the intent cascade with the server-id rule tested first
ClassifyIntentMutant(user_query, entities) ==
    LET q == Lower(user_query)
        no_filters == [k \in {} |-> NoneStr]
    IN IF "server_id" \in DOMAIN entities
       THEN [intent |-> "server_info", confidence |-> ConfServerId, filters |-> no_filters]
       ELSE IF AnyIn(FaultKeywords, q)
       THEN [intent |-> "fault_diagnosis", confidence |-> ConfFault, filters |-> no_filters]
       ELSE IF AnyIn(LogKeywords, q)
       THEN [intent |-> "installation_log", confidence |-> ConfKeyword,
             filters |-> no_filters]
       ELSE IF AnyIn(TopologyKeywords, q)
       THEN [intent |-> IF Contains(q, kw_rack_cn) \/ Contains(q, kw_rack)
                        THEN "rack_analysis" ELSE "server_topology",
             confidence |-> ConfKeyword, filters |-> no_filters]
       ELSE IF AnyIn(SwitchKeywords, q)
       THEN [intent |-> "switch_info", confidence |-> ConfKeyword, filters |-> no_filters]
       ELSE IF AnyIn(ListKeywords, q) /\ Contains(q, kw_server_cn)
       THEN [intent |-> "server_info", confidence |-> ConfListing, filters |-> no_filters]
       ELSE [intent |-> unknown_intent, confidence |-> ConfUnknown, filters |-> no_filters]

\* the intent cascade; confidence in hundredths
ClassifyIntent(user_query, entities) ==
    LET q == Lower(user_query)
        status_filter ==
            IF Contains(q, kw_online_cn) \/ Contains(q, kw_online) THEN "online"
            ELSE IF Contains(q, kw_offline_cn) \/ Contains(q, kw_offline) THEN "offline"
            ELSE IF Contains(q, kw_fault_cn) \/ Contains(q, kw_failed)
            THEN "install_failed"
            ELSE NoneStr
        no_filters == [k \in {} |-> NoneStr]
    IN IF AnyIn(FaultKeywords, q)
       THEN [intent |-> "fault_diagnosis", confidence |-> ConfFault, filters |-> no_filters]
       ELSE IF AnyIn(LogKeywords, q)
       THEN [intent |-> "installation_log", confidence |-> ConfKeyword,
             filters |-> no_filters]
       ELSE IF AnyIn(TopologyKeywords, q)
       THEN [intent |-> IF Contains(q, kw_rack_cn) \/ Contains(q, kw_rack)
                        THEN "rack_analysis" ELSE "server_topology",
             confidence |-> ConfKeyword, filters |-> no_filters]
       ELSE IF AnyIn(SwitchKeywords, q)
       THEN [intent |-> "switch_info", confidence |-> ConfKeyword, filters |-> no_filters]
       ELSE IF AnyIn(ListKeywords, q) /\ Contains(q, kw_server_cn)
       THEN [intent |-> "server_info", confidence |-> ConfListing,
             filters |-> IF status_filter = NoneStr THEN no_filters
                         ELSE [status |-> status_filter]]
       ELSE IF "server_id" \in DOMAIN entities
       THEN [intent |-> "server_info", confidence |-> ConfServerId, filters |-> no_filters]
       ELSE [intent |-> unknown_intent, confidence |-> ConfUnknown, filters |-> no_filters]

\* str(float) of the confidence constants
ConfStr(c) ==
    CASE c = 95 -> "0.95" [] c = 90 -> "0.9" [] c = 85 -> "0.85" [] c = 80 -> "0.8"
      [] OTHER -> "0.0"

\* datetime.now().isoformat()
IsoNow(clock) == "t" \o Dec(clock)

\* list.insert(0, entry) in place of list.append
Append1Mutant(history, entry) == <<entry>> \o history

\* list.append
Append1(history, entry) == history \o <<entry>>

analyze_query(s, clock) ==
    LET entities == ExtractEntities(s.user_query)
        c == ClassifyIntent(s.user_query, entities)
    IN [s EXCEPT
          !.query_analysis = [intent |-> c.intent, entities |-> entities,
                              filters |-> c.filters, confidence |-> c.confidence],
          !.execution_history =
              Append1(@, [step |-> "analyze_query", timestamp |-> IsoNow(clock),
                          result |-> "Intent: " \o c.intent \o ", Confidence: "
                                       \o ConfStr(c.confidence)])]

\* ----------------------------------------------------------------- workflow
\* bool() of an Optional[str] and of an Optional[dict] / dataclass
TruthyStr(x) == x # NoneStr /\ x # ""
Truthy(x) == x # None

DiagnosisResult(root_cause, confidence, recommendations, next_steps) ==
    [root_cause |-> root_cause, confidence |-> confidence,
     recommendations |-> recommendations, next_steps |-> next_steps,
     related_issues |-> <<>>]

\* the tool calls fetch_data makes for an analysis, in order
PlannedCalls(analysis) ==
    LET intent == analysis.intent
        entities == analysis.entities
        filters == analysis.filters
        Has(k) == k \in DOMAIN entities
        Call(tool, arg, slot) == [tool |-> tool, arg |-> arg, slot |-> slot]
    IN IF intent = "server_info"
       THEN IF Has("server_id")
            THEN <<Call("get_server_details", entities.server_id, "server_info")>>
            ELSE <<Call("query_servers",
                        IF "status" \in DOMAIN filters THEN filters.status ELSE NoneStr,
                        "server_info")>>
       ELSE IF intent = "server_topology" /\ Has("server_id")
       THEN <<Call("get_server_topology", entities.server_id, "topology_info")>>
       ELSE IF intent = "rack_analysis" /\ Has("rack_id")
       THEN <<Call("get_rack_topology", entities.rack_id, "topology_info")>>
       ELSE IF intent = "switch_info" /\ Has("switch_id")
       THEN <<Call("get_switch_info", entities.switch_id, "switch_info")>>
       ELSE IF intent = "installation_log" /\ Has("server_id")
       THEN <<Call("get_installation_logs", entities.server_id, "installation_logs")>>
       ELSE IF intent = "fault_diagnosis" /\ Has("server_id")
       THEN <<Call("analyze_installation_failure", entities.server_id, "diagnosis"),
              Call("get_server_details", entities.server_id, "server_info"),
              Call("get_server_topology", entities.server_id, "topology_info"),
              Call("get_installation_logs", entities.server_id, "installation_logs")>>
       ELSE <<>>

\* MockMCPClient.call_tool: the mock server's function of that name, on a store
\* whose topology dict is `topologies`
ToolResultOn(topologies, call, clock) ==
    CASE call.tool = "get_server_details" -> get_server_details(call.arg)
      [] call.tool = "query_servers" -> list_servers(call.arg, NoneStr, NoneStr, NoneStr)
      [] call.tool = "get_server_topology" -> get_server_topology(topologies, call.arg)
      [] call.tool = "get_rack_topology" -> get_rack_topology(topologies, call.arg)
      [] call.tool = "get_switch_info" -> get_switch_info(call.arg)
      [] call.tool = "get_installation_logs" -> get_installation_logs(call.arg)
      [] OTHER -> analyze_installation_failure(topologies, call.arg, clock)

\* what <tool>.ainvoke returns when it returns: the wrappers of tools.py and
\* MockMCPClient.call_tool hand the mock server's result through
ToolResult(call, clock) == ToolResultOn(MOCK_TOPOLOGIES, call, clock)

\* the assignment fetch_data makes with the result of a call
StoreResult(s, call, result) ==
    IF call.tool = "analyze_installation_failure"
    THEN IF "diagnosis" \in DOMAIN result
         THEN [s EXCEPT !.diagnosis =
                  DiagnosisResult(result.diagnosis.root_cause,
                                  result.diagnosis.confidence,
                                  result.diagnosis.recommendations,
                                  result.diagnosis.next_steps)]
         ELSE s
    ELSE [s EXCEPT ![call.slot] = result]

ToolFailure == "tool call failed"       \* str(e) of the exception ainvoke raised
FetchFailedPrefix == "fetch data failed: "          \* 获取数据失败:
AnalysisFailed == "query analysis failed"           \* 查询分析失败

\* the record of one ainvoke: the call and whether it raised
Made(call, raised) ==
    [tool |-> call.tool, arg |-> call.arg, slot |-> call.slot, raised |-> raised]

\* the try/except placed around each call: a raising call is skipped and the
\* calls after it are still made
RECURSIVE RunCallsMutant(_, _, _, _, _, _)
RunCallsMutant(s, plan, k, failAt, clock, made) ==
    IF k > Len(plan)
    THEN [state |-> s, raised |-> failAt \in 1..Len(plan), made |-> made]
    ELSE IF k = failAt
    THEN RunCallsMutant(s, plan, k + 1, failAt, clock, Append(made, Made(plan[k], TRUE)))
    ELSE RunCallsMutant(StoreResult(s, plan[k], ToolResult(plan[k], clock)), plan, k + 1,
                        failAt, clock, Append(made, Made(plan[k], FALSE)))

\* the try block: call k of plan raises when k = failAt (0: none raises)
RECURSIVE RunCalls(_, _, _, _, _, _)
RunCalls(s, plan, k, failAt, clock, made) ==
    IF k > Len(plan) THEN [state |-> s, raised |-> FALSE, made |-> made]
    ELSE IF k = failAt
    THEN [state |-> s, raised |-> TRUE, made |-> Append(made, Made(plan[k], TRUE))]
    ELSE RunCalls(StoreResult(s, plan[k], ToolResult(plan[k], clock)), plan, k + 1,
                  failAt, clock, Append(made, Made(plan[k], FALSE)))

\* what follows the calls: the except clause when one raised, else the history
\* entry that ends the try block
AfterCalls(s, clock, r) ==
    IF r.raised
    THEN [state |-> [r.state EXCEPT !.error = FetchFailedPrefix \o ToolFailure],
          made |-> r.made]
    ELSE [state |-> [r.state EXCEPT !.execution_history =
                        Append1(@, [step |-> "fetch_data",
                                    timestamp |-> IsoNow(clock),
                                    intent |-> s.query_analysis.intent])],
          made |-> r.made]

fetch_data(s, clock, failAt) ==
    IF ~Truthy(s.query_analysis)
    THEN [state |-> [s EXCEPT !.error = AnalysisFailed], made |-> <<>>]
    ELSE AfterCalls(s, clock,
                    RunCalls(s, PlannedCalls(s.query_analysis), 1, failAt, clock, <<>>))

NeedsAnalysis == "needs further analysis"           \* 需要进一步分析
CheckOob == "check the out-of-band network connection"      \* 检查带外网络连接
ContactSupport == "please contact technical support"        \* 请联系技术支持
FaultNextSteps == <<"collect more logs", "check the hardware state">>

\* the two successive assignments to root_cause: the log check runs last
RootCause(oob_reason, has_summary, summary) ==
    IF has_summary THEN Str(summary)
    ELSE IF oob_reason # NoneStr THEN oob_reason
    ELSE NeedsAnalysis

\* the recommendations passed on as they are, without the fallback
OrContactSupportMutant(recommendations) == recommendations

\* recommendations if recommendations else ["请联系技术支持"]
OrContactSupport(recommendations) ==
    IF recommendations # <<>> THEN recommendations ELSE <<ContactSupport>>

analyze_fault(s) ==
    IF /\ Truthy(s.query_analysis)
       /\ s.query_analysis.intent = "fault_diagnosis"
       /\ ~Truthy(s.diagnosis)
    THEN
      LET topo == s.topology_info
          has_oob == Truthy(topo) /\ "out_of_band_network" \in DOMAIN topo
          oob == topo.out_of_band_network
          has_conn == has_oob /\ "connectivity" \in DOMAIN oob
          \* not oob.get("connectivity", {}).get("is_connected", True)
          disconnected == /\ has_conn
                          /\ "is_connected" \in DOMAIN oob.connectivity
                          /\ ~oob.connectivity.is_connected
          oob_reason ==
              IF /\ disconnected
                 /\ "failure_reason" \in DOMAIN oob.connectivity
                 /\ TruthyStr(oob.connectivity.failure_reason)
              THEN oob.connectivity.failure_reason
              ELSE NoneStr
          logs == s.installation_logs
          has_summary == /\ Truthy(logs)
                         /\ "installation" \in DOMAIN logs
                         /\ "error_summary" \in DOMAIN logs.installation
          summary == logs.installation.error_summary
          recommendations == IF disconnected THEN <<CheckOob>> ELSE <<>>
      IN [s EXCEPT !.diagnosis =
            DiagnosisResult(RootCause(oob_reason, has_summary,
                                      IF has_summary THEN summary ELSE <<>>),
                            "medium",
                            OrContactSupport(recommendations),
                            FaultNextSteps)]
    ELSE s

\* the routing test without the `not state.get("diagnosis")` conjunct
should_analyze_faultMutant(s) ==
    IF Truthy(s.query_analysis) /\ s.query_analysis.intent = "fault_diagnosis"
    THEN "analyze_fault"
    ELSE "generate_response"

should_analyze_fault(s) ==
    IF /\ Truthy(s.query_analysis)
       /\ s.query_analysis.intent = "fault_diagnosis"
       /\ ~Truthy(s.diagnosis)
    THEN "analyze_fault"
    ELSE "generate_response"

\* d[path[1]][path[2]]... exists
RECURSIVE HasPath(_, _)
HasPath(d, path) ==
    IF path = <<>> THEN TRUE
    ELSE Head(path) \in DOMAIN d /\ HasPath(d[Head(path)], Tail(path))

\* the first subscript of `paths` that raises KeyError on d, <<>> when none does
FirstMissing(d, paths) ==
    IF \A i \in 1..Len(paths) : HasPath(d, paths[i]) THEN <<>>
    ELSE paths[CHOOSE i \in 1..Len(paths) :
                 ~HasPath(d, paths[i]) /\ \A j \in 1..(i - 1) : HasPath(d, paths[j])]

KeyError(path) == "KeyError: " \o path[Len(path)]

\* the subscripts each template reads, in evaluation order
ListItemReads ==
    <<<<"server_id">>, <<"hostname">>, <<"status">>, <<"location", "room">>,
      <<"location", "rack">>>>
ServerDetailReads ==
    <<<<"server_id">>, <<"hostname">>, <<"status">>, <<"ip_address">>,
      <<"hardware", "cpu_cores">>, <<"hardware", "memory_gb">>,
      <<"location", "room">>, <<"location", "rack">>, <<"location", "rack_position">>>>
TopologyReads ==
    <<<<"server_id">>, <<"in_band_network", "path">>, <<"in_band_network", "status">>,
      <<"out_of_band_network", "path">>, <<"out_of_band_network", "status">>>>
RackReads ==
    <<<<"rack_id">>, <<"total_servers">>, <<"in_band_connected">>,
      <<"out_of_band_connected">>>>
RackAlertReads == <<<<"alert">>, <<"recommended_action">>>>
LogReads == <<<<"server_id">>, <<"installation", "status">>,
              <<"installation", "start_time">>, <<"installation", "logs">>>>
LogEntryReads == <<<<"timestamp">>, <<"level">>, <<"message">>>>
SwitchReads ==
    <<<<"switch_id">>, <<"name">>, <<"model">>, <<"status">>, <<"port_summary", "up">>,
      <<"port_summary", "total">>, <<"connected_servers">>>>

\* the first KeyError over the items of a list, <<>> when none
FirstMissingIn(items, paths) ==
    IF \A i \in 1..Len(items) : FirstMissing(items[i], paths) = <<>> THEN <<>>
    ELSE FirstMissing(items[CHOOSE i \in 1..Len(items) :
                              /\ FirstMissing(items[i], paths) # <<>>
                              /\ \A j \in 1..(i - 1) : FirstMissing(items[j], paths) = <<>>],
                      paths)

\* f"{i}. {item}" for i, item in enumerate(items, 1)
Numbered(items) == [i \in 1..Len(items) |-> Dec(i) \o ". " \o items[i]]

ErrorPrefix == "sorry, an error occurred while handling your request: "
    \* 抱歉，处理您的请求时出现错误：
NotUnderstood == "sorry, I cannot understand the intent of your query."
    \* 抱歉，我无法理解您的查询意图。
CannotHandle == "sorry, I cannot handle your query."       \* 抱歉，我无法处理您的查询。

\* the KeyError the template of the state's intent raises, <<>> when it renders
TemplateKeyError(s) ==
    LET intent == s.query_analysis.intent
    IN IF intent = "server_info" /\ Truthy(s.server_info)
       THEN IF "servers" \in DOMAIN s.server_info
            THEN IF "total" \notin DOMAIN s.server_info THEN <<"total">>
                 ELSE FirstMissingIn(Take(s.server_info.servers, 10), ListItemReads)
            ELSE FirstMissing(s.server_info, ServerDetailReads)
       ELSE IF intent = "server_topology" /\ Truthy(s.topology_info)
       THEN FirstMissing(s.topology_info, TopologyReads)
       ELSE IF intent = "rack_analysis" /\ Truthy(s.topology_info)
       THEN IF FirstMissing(s.topology_info, RackReads) # <<>>
            THEN FirstMissing(s.topology_info, RackReads)
            ELSE IF "alert" \in DOMAIN s.topology_info
            THEN FirstMissing(s.topology_info, RackAlertReads)
            ELSE <<>>
       ELSE IF /\ intent = "installation_log" /\ Truthy(s.installation_logs)
               /\ "installation" \in DOMAIN s.installation_logs
       THEN IF FirstMissing(s.installation_logs, LogReads) # <<>>
            THEN FirstMissing(s.installation_logs, LogReads)
            ELSE FirstMissingIn(LastN(s.installation_logs.installation.logs, 5),
                                LogEntryReads)
       ELSE IF intent = "switch_info" /\ Truthy(s.switch_info)
       THEN FirstMissing(s.switch_info, SwitchReads)
       ELSE <<>>

\* response_parts, for a state whose template raises no KeyError
ResponseParts(s) ==
    LET intent == s.query_analysis.intent
        info == s.server_info
        topo == s.topology_info
        diag == s.diagnosis
        logs == s.installation_logs
        switch == s.switch_info
    IN IF intent = "server_info"
       THEN IF ~Truthy(info) THEN <<>>
            ELSE IF "servers" \in DOMAIN info
            THEN LET shown == Take(info.servers, 10)
                 IN <<"found " \o Dec(info.total) \o " servers:">>
                    \o [i \in 1..Len(shown) |->
                          "- " \o shown[i].server_id \o " (" \o shown[i].hostname
                            \o "): status=" \o shown[i].status \o ", location="
                            \o shown[i].location.room \o "/" \o shown[i].location.rack]
                    \o (IF info.total > 10
                        THEN <<"... " \o Dec(info.total - 10) \o " more servers">>
                        ELSE <<>>)
            ELSE <<"server " \o info.server_id \o " details:",
                   "- hostname: " \o info.hostname,
                   "- status: " \o info.status,
                   "- ip: " \o info.ip_address,
                   "- hardware: " \o Dec(info.hardware.cpu_cores) \o " cores, "
                     \o Dec(info.hardware.memory_gb) \o "GB memory",
                   "- location: " \o info.location.room \o "/" \o info.location.rack
                     \o "/U" \o Dec(info.location.rack_position)>>
       ELSE IF intent = "server_topology"
       THEN IF ~Truthy(topo) THEN <<>>
            ELSE LET oob == topo.out_of_band_network
                     reason ==
                         IF /\ "connectivity" \in DOMAIN oob
                            /\ "failure_reason" \in DOMAIN oob.connectivity
                            /\ TruthyStr(oob.connectivity.failure_reason)
                         THEN <<"- failure reason: " \o oob.connectivity.failure_reason>>
                         ELSE <<>>
                 IN <<"server " \o topo.server_id \o " network topology:",
                      "\nin-band network:",
                      "- path: " \o Join(topo.in_band_network.path, " -> "),
                      "- status: " \o topo.in_band_network.status,
                      "\nout-of-band network:",
                      "- path: " \o Join(oob.path, " -> "),
                      "- status: " \o oob.status>> \o reason
       ELSE IF intent = "rack_analysis"
       THEN IF ~Truthy(topo) THEN <<>>
            ELSE <<"rack " \o topo.rack_id \o " analysis:",
                   "- total servers: " \o Dec(topo.total_servers),
                   "- in-band ok: " \o Dec(topo.in_band_connected),
                   "- out-of-band ok: " \o Dec(topo.out_of_band_connected)>>
                 \o (IF "alert" \in DOMAIN topo
                     THEN <<"\nalert: " \o topo.alert,
                            "recommended action: " \o topo.recommended_action>>
                     ELSE <<>>)
       ELSE IF intent = "fault_diagnosis"
       THEN IF ~Truthy(diag) THEN <<>>
            ELSE <<"fault diagnosis result:",
                   "\nroot cause: " \o diag.root_cause,
                   "confidence: " \o diag.confidence,
                   "\nrecommendations:">>
                 \o Numbered(diag.recommendations)
                 \o <<"\nnext steps:">>
                 \o Numbered(diag.next_steps)
       ELSE IF intent = "installation_log"
       THEN IF ~Truthy(logs) THEN <<>>
            ELSE IF "installation" \in DOMAIN logs
            THEN LET inst == logs.installation
                     shown == LastN(inst.logs, 5)
                 IN <<"server " \o logs.server_id \o " installation log:",
                      "- status: " \o inst.status,
                      "- start time: " \o inst.start_time>>
                    \o (IF "error_summary" \in DOMAIN inst /\ inst.error_summary # <<>>
                        THEN <<"- error summary: " \o Str(inst.error_summary)>>
                        ELSE <<>>)
                    \o <<"\nlog details:">>
                    \o [i \in 1..Len(shown) |->
                          "[" \o shown[i].timestamp \o "] " \o shown[i].level \o ": "
                            \o shown[i].message]
            ELSE <<IF "message" \in DOMAIN logs THEN logs.message
                   ELSE NoLogFoundMessage>>
       ELSE IF intent = "switch_info"
       THEN IF ~Truthy(switch) THEN <<>>
            ELSE <<"switch " \o switch.switch_id \o " info:",
                   "- name: " \o switch.name,
                   "- model: " \o switch.model,
                   "- status: " \o switch.status,
                   "- ports: " \o Dec(switch.port_summary.up) \o "/"
                     \o Dec(switch.port_summary.total) \o " UP",
                   "- connected servers: " \o Dec(Len(switch.connected_servers))>>
       ELSE <<CannotHandle>>

\* the part of generate_response after the two early returns
RenderByIntent(s, clock) ==
    IF TemplateKeyError(s) # <<>>
    THEN [state |-> s, raised |-> KeyError(TemplateKeyError(s))]
    ELSE [state |-> [s EXCEPT
                       !.response = Join(ResponseParts(s), "\n"),
                       !.execution_history =
                           Append1(@, [step |-> "generate_response",
                                       timestamp |-> IsoNow(clock)])],
          raised |-> "None"]

\* generate_response with its two early returns in the other order
generate_responseOrderMutant(s, clock) ==
    IF ~Truthy(s.query_analysis)
    THEN [state |-> [s EXCEPT !.response = NotUnderstood], raised |-> "None"]
    ELSE IF TruthyStr(s.error)
    THEN [state |-> [s EXCEPT !.response = ErrorPrefix \o s.error], raised |-> "None"]
    ELSE RenderByIntent(s, clock)

\* generate_response clearing the error once it has reported it
generate_responseClearMutant(s, clock) ==
    IF TruthyStr(s.error)
    THEN [state |-> [s EXCEPT !.response = ErrorPrefix \o s.error, !.error = NoneStr],
          raised |-> "None"]
    ELSE IF ~Truthy(s.query_analysis)
    THEN [state |-> [s EXCEPT !.response = NotUnderstood], raised |-> "None"]
    ELSE RenderByIntent(s, clock)

\* raised is "None" when the stage returns, else the exception that escapes it
generate_response(s, clock) ==
    IF TruthyStr(s.error)
    THEN [state |-> [s EXCEPT !.response = ErrorPrefix \o s.error], raised |-> "None"]
    ELSE IF ~Truthy(s.query_analysis)
    THEN [state |-> [s EXCEPT !.response = NotUnderstood], raised |-> "None"]
    ELSE RenderByIntent(s, clock)

\* create_workflow with the edge out of analyze_fault leading back to fetch_data
NextNodeMutant(node, s) ==
    CASE node = "analyze_query" -> "fetch_data"
      [] node = "fetch_data" -> should_analyze_fault(s)
      [] node = "analyze_fault" -> "fetch_data"
      [] node = "generate_response" -> "END"

\* the edges of create_workflow: the node that runs after `node` left state s
NextNode(node, s) ==
    CASE node = "analyze_query" -> "fetch_data"
      [] node = "fetch_data" -> should_analyze_fault(s)
      [] node = "analyze_fault" -> "generate_response"
      [] node = "generate_response" -> "END"

\* ------------------------------------------------------ one query invocation
Fragments ==
    <<
      <<"s", "r", "v", "-", "0", "0", "2", "0">>,
      <<"s", "r", "v", "-", "0", "0", "0", "1">>,
      <<"s", "r", "v", "-", "9", "9", "9", "9">>,
      <<"r", "a", "c", "k", "-", "A", "0", "2">>,
      <<"r", "a", "c", "k", "-", "Z", "9", "9">>,
      <<"s", "w", "-", "t", "o", "r", "-", "0", "0", "1">>,
      <<"u5b89", "u88c5", "u5931", "u8d25">>,   \* 安装失败
      <<"u65e5", "u5fd7">>,   \* 日志
      <<"u62d3", "u6251">>,   \* 拓扑
      <<"u4ea4", "u6362", "u673a">>,   \* 交换机
      <<"u67e5", "u770b", "u6240", "u6709", "u5728", "u7ebf", "u7684", "u670d", "u52a1", "u5668">>,   \* 查看所有在线的服务器
      <<"u7684", "u72b6", "u6001", "u662f", "u4ec0", "u4e48">>,   \* 的状态是什么
      <<"u673a", "u67dc">>>>   \* 机柜

RECURSIVE QueriesOf(_)
QueriesOf(n) ==
    IF n = 0 THEN {<<>>}
    ELSE QueriesOf(n - 1)
           \cup {q \o Fragments[i] : q \in QueriesOf(n - 1), i \in 1..Len(Fragments)}

Queries == QueriesOf(MaxFrags)

\* initial_state of CZAgent.process_query
InitialState(query, clock) ==
    [user_query |-> query,
     query_analysis |-> None,
     server_info |-> None,
     topology_info |-> None,
     switch_info |-> None,
     installation_logs |-> None,
     rack_servers |-> None,
     affected_servers |-> None,
     diagnosis |-> None,
     response |-> NoneStr,
     execution_history |-> <<>>,
     error |-> NoneStr,
     timestamp |-> IsoNow(clock),
     execution_time |-> None]

MaxToolCalls == 4       \* the longest plan of fetch_data

Init == /\ now = 0
        /\ \E q \in Queries : state = InitialState(q, now)
        /\ pc = "analyze_query"
        /\ calls = <<>>
        /\ exc = "None"
        /\ trace = <<>>

\* time passes between any two steps
Tick == /\ now < MaxClock
        /\ now' = now + 1
        /\ UNCHANGED <<state, pc, calls, exc, trace>>

AnalyzeQuery ==
    /\ pc = "analyze_query"
    /\ state' = analyze_query(state, now)
    /\ pc' = NextNode("analyze_query", state')
    /\ trace' = Append(trace, "analyze_query")
    /\ UNCHANGED <<calls, now, exc>>

\* any one of the calls of the plan may raise
FetchData ==
    /\ pc = "fetch_data"
    /\ \E failAt \in 0..MaxToolCalls :
          /\ failAt <= Len(PlannedCalls(state.query_analysis))
          /\ \E r \in {fetch_data(state, now, failAt)} :
                /\ state' = r.state
                /\ calls' = calls \o r.made
                /\ pc' = NextNode("fetch_data", r.state)
    /\ trace' = Append(trace, "fetch_data")
    /\ UNCHANGED <<now, exc>>

AnalyzeFault ==
    /\ pc = "analyze_fault"
    /\ state' = analyze_fault(state)
    /\ pc' = NextNode("analyze_fault", state')
    /\ trace' = Append(trace, "analyze_fault")
    /\ UNCHANGED <<calls, now, exc>>

GenerateResponse ==
    /\ pc = "generate_response"
    /\ \E r \in {generate_response(state, now)} :
          /\ state' = r.state
          /\ exc' = r.raised
          /\ pc' = IF r.raised = "None" THEN NextNode("generate_response", r.state)
                   ELSE "raised"
    /\ trace' = Append(trace, "generate_response")
    /\ UNCHANGED <<calls, now>>

Next == AnalyzeQuery \/ FetchData \/ AnalyzeFault \/ GenerateResponse \/ Tick

Spec == Init /\ [][Next]_vars

\* the nodes of the compiled graph, with END and the exit by an exception
Nodes == {"analyze_query", "fetch_data", "analyze_fault", "generate_response",
          "END", "raised"}

\* ainvoke runs the graph from its entry point until END or until a node
\* raises: it never stops at a node. Every node function returns or raises on
\* every state, so the node the run is at can always be left, and only the
\* four stage actions change pc: the run leaves the node it is at
Advance == /\ pc \in Nodes \ {"END", "raised"}
           /\ pc' \in Nodes

FairSpec == Spec /\ WF_pc(Advance)

\* ------------------------------------------- the stage functions on their own
\* analyze_fault and generate_response called directly on a state, as the unit
\* tests do: any intent, and in each slot any value the tool layer returns
Intents == {"server_info", "server_topology", "switch_info", "installation_log",
            "fault_diagnosis", "rack_analysis", unknown_intent}
UnitServerIds == {"srv-0020", "srv-0001", "srv-9999"}
UnitRackIds == {"rack-A02", "rack-Z99"}
UnitSwitchIds == {"sw-tor-001", "sw-tor-999"}
UnitError == "connection timed out"     \* 连接超时

UnitAnalyses ==
    {None} \cup {[intent |-> i, entities |-> [k \in {} |-> NoneStr],
                  filters |-> [k \in {} |-> NoneStr], confidence |-> 0] : i \in Intents}
UnitDiagnoses ==
    {None} \cup
    {LET d == analyze_installation_failure(MOCK_TOPOLOGIES, "srv-0020", 0).diagnosis
     IN DiagnosisResult(d.root_cause, d.confidence, d.recommendations, d.next_steps)}

UnitStates ==
    {[InitialState(<<>>, 0) EXCEPT
        !.query_analysis = a, !.server_info = si, !.topology_info = ti,
        !.switch_info = sw, !.installation_logs = il, !.diagnosis = d, !.error = e] :
      a \in UnitAnalyses,
      si \in {None, list_servers("install_failed", NoneStr, NoneStr, NoneStr)}
               \cup {get_server_details(id) : id \in UnitServerIds},
      ti \in {None} \cup {get_server_topology(MOCK_TOPOLOGIES, id) : id \in UnitServerIds}
               \cup {get_rack_topology(MOCK_TOPOLOGIES, id) : id \in UnitRackIds},
      sw \in {None} \cup {get_switch_info(id) : id \in UnitSwitchIds},
      il \in {None} \cup {get_installation_logs(id) : id \in UnitServerIds},
      d \in UnitDiagnoses,
      e \in {NoneStr, UnitError}}

UnitInit ==
    /\ now = 0
    /\ state \in UnitStates
    /\ pc \in {"call_analyze_fault", "call_generate_response"}
    /\ calls = <<>>
    /\ exc = "None"
    /\ trace = <<>>

CallAnalyzeFault ==
    /\ pc = "call_analyze_fault"
    /\ state' = analyze_fault(state)
    /\ pc' = "returned"
    /\ UNCHANGED <<calls, now, exc, trace>>

CallGenerateResponse ==
    /\ pc = "call_generate_response"
    /\ \E r \in {generate_response(state, now)} :
          /\ state' = r.state
          /\ exc' = r.raised
          /\ pc' = IF r.raised = "None" THEN "returned" ELSE "raised"
    /\ UNCHANGED <<calls, now, trace>>

UnitNext == CallAnalyzeFault \/ CallGenerateResponse \/ Tick

UnitSpec == UnitInit /\ [][UnitNext]_vars

\* ------------------------------------------------- analyze_query on its own
\* analyze_query called directly on an initial state, as the unit tests do, over
\* queries that also spell the ids in other letter cases and in the localized
\* rack form, and that carry the status words of the listing rule
AnalyzerFragments ==
    Fragments \o
    <<
      <<"S", "R", "V", "-", "0", "0", "2", "0">>,
      <<"S", "e", "r", "v", "e", "r", "-", "7">>,
      <<"R", "A", "C", "K", "-", "b", "0", "1">>,
      <<"u673a", "u67dc", "A", "0", "2">>,   \* 机柜A02
      <<"u67e5", "u770b", "u670d", "u52a1", "u5668">>,   \* 查看服务器
      <<"u79bb", "u7ebf">>,   \* 离线
      <<"u6545", "u969c">>,   \* 故障
      \* 查看机柜rack-A02的网络拓扑
      <<"u67e5", "u770b", "u673a", "u67dc", "r", "a", "c", "k", "-", "A", "0", "2",
        "u7684", "u7f51", "u7edc", "u62d3", "u6251">>>>

RECURSIVE AnalyzerQueriesOf(_)
AnalyzerQueriesOf(n) ==
    IF n = 0 THEN {<<>>}
    ELSE AnalyzerQueriesOf(n - 1)
           \cup {q \o AnalyzerFragments[i] :
                   q \in AnalyzerQueriesOf(n - 1), i \in 1..Len(AnalyzerFragments)}

AnalyzerInit ==
    /\ now = 0
    /\ \E q \in AnalyzerQueriesOf(MaxFrags) : state = InitialState(q, now)
    /\ pc = "call_analyze_query"
    /\ calls = <<>>
    /\ exc = "None"
    /\ trace = <<>>

CallAnalyzeQuery ==
    /\ pc = "call_analyze_query"
    /\ state' = analyze_query(state, now)
    /\ pc' = "returned"
    /\ UNCHANGED <<calls, now, exc, trace>>

AnalyzerNext == CallAnalyzeQuery \/ Tick

AnalyzerSpec == AnalyzerInit /\ [][AnalyzerNext]_vars

\* ------------------------------------------------------ the tools on their own
\* a tool called through MockMCPClient.call_tool, as the tool-layer tests do: each
\* tool on ids that exist and on one that does not, the rack tool on every rack
\* and the failure analysis on every server, against the inventory of
\* init_mock_data and against inventories with more out-of-band paths down
ToolCalls ==
    {[tool |-> t, arg |-> id, slot |-> "server_info"] :
        t \in {"get_server_details"}, id \in UnitServerIds}
    \cup {[tool |-> t, arg |-> status, slot |-> "server_info"] :
            t \in {"query_servers"}, status \in {NoneStr, "online", "install_failed"}}
    \cup {[tool |-> t, arg |-> id, slot |-> "topology_info"] :
            t \in {"get_server_topology"}, id \in UnitServerIds}
    \cup {[tool |-> t, arg |-> id, slot |-> "topology_info"] :
            t \in {"get_rack_topology"}, id \in Range(racks) \cup UnitRackIds}
    \cup {[tool |-> t, arg |-> id, slot |-> "switch_info"] :
            t \in {"get_switch_info"}, id \in UnitSwitchIds}
    \cup {[tool |-> t, arg |-> id, slot |-> "installation_logs"] :
            t \in {"get_installation_logs"}, id \in UnitServerIds}
    \cup {[tool |-> t, arg |-> id, slot |-> "diagnosis"] :
            t \in {"analyze_installation_failure"},
            id \in Range(SERVER_KEYS) \cup UnitServerIds}

\* MOCK_TOPOLOGIES after the out-of-band path of `extra` more servers of `rack`
\* has gone down as in the forced fault: the first of the rack, in insertion
\* order, that init_mock_data left connected
Degraded(rack, extra) ==
    LET Up(n) == RackOf(n) = rack /\ OobConnectedOf(n)
        hit == Range(Take(SelectSeq(AllSeqNos, Up), extra))
        Down(n) ==
            [TopologyInfo(n) EXCEPT
               !.out_of_band_network.status = "disconnected",
               !.out_of_band_network.last_hop_reachable = TorSwitchOf(n) \o "-oob",
               !.out_of_band_connectivity.is_connected = FALSE,
               !.out_of_band_connectivity.failure_reason =
                   "rack uplink switch port fault"]
    IN [id \in DOMAIN MOCK_TOPOLOGIES |->
          IF SeqNoOf(id) \in hit THEN Down(SeqNoOf(id)) ELSE MOCK_TOPOLOGIES[id]]

\* the inventories the tools are called on: the one init_mock_data builds
\* (extra = 0, 76 of the 120 servers of rack-A02 connected) and inventories in
\* which a rack has 24 (failure rate exactly 80%), 23 or none of its 120
\* servers connected
Inventories ==
    {[rack |-> "rack-A02", extra |-> k] : k \in {0, 52, 53, 76}}
    \cup {[rack |-> "rack-B02", extra |-> 116]}

\* MOCK_TOPOLOGIES of each inventory
InventoryTopologies == [inv \in Inventories |-> Degraded(inv.rack, inv.extra)]

\* the inventory a tool leaves behind: the tool bodies read MOCK_SERVERS,
\* MOCK_TOPOLOGIES, MOCK_SWITCHES and MOCK_INSTALLATION_LOGS and assign to
\* none of them; the lists they sort or append to are their own
StoreAfter(inventory, call) == inventory

\* the record of a call that returned, with the inventory it read, the
\* inventory it left, the clock it read and the value it returned
Returned(inventory, call, result) ==
    [tool |-> call.tool, arg |-> call.arg, slot |-> call.slot, raised |-> FALSE,
     inventory |-> inventory, inventory_after |-> StoreAfter(inventory, call),
     at |-> now, returned |-> result]

ToolInit ==
    /\ now = 0
    /\ state = InitialState(<<>>, now)
    /\ pc = "call_tool"
    /\ calls = <<>>
    /\ exc = "None"
    /\ trace = <<>>

CallTool ==
    /\ pc = "call_tool"
    /\ \E inventory \in Inventories, call \in ToolCalls :
          calls' = Append(calls,
                          Returned(inventory, call,
                                   ToolResultOn(InventoryTopologies[inventory], call, now)))
    /\ pc' = "returned"
    /\ UNCHANGED <<state, now, exc, trace>>

\* the same tool called once more with the same argument, now or later, on
\* the inventory the first call left
CallToolAgain ==
    /\ pc = "returned"
    /\ \E inventory \in {calls[1].inventory_after} :
       \E call \in {[tool |-> calls[1].tool, arg |-> calls[1].arg,
                      slot |-> calls[1].slot]} :
          calls' = Append(calls,
                          Returned(inventory, call,
                                   ToolResultOn(InventoryTopologies[inventory], call, now)))
    /\ pc' = "returned_again"
    /\ UNCHANGED <<state, now, exc, trace>>

ToolNext == CallTool \/ CallToolAgain \/ Tick

ToolSpec == ToolInit /\ [][ToolNext]_vars

\* ------------------------------------------------- two invocations in flight
\* Two process_query coroutines on one CZAgent: each builds its own
\* initial_state dict and hands it to workflow.ainvoke; the compiled graph, the
\* module-level mcp_client and the mock store are what they share. In this
\* specification state, pc, calls, exc and trace hold one value per invocation.
PairQueries ==
    {Fragments[1] \o Fragments[7],       \* srv-0020安装失败
     Fragments[2] \o Fragments[7],       \* srv-0001安装失败
     Fragments[4] \o Fragments[9],       \* rack-A02拓扑
     Fragments[3]}                       \* srv-9999
Invocations == {1, 2}
MaxPairFailAt == 1     \* in a fetch_data stage no call raises, or the first one does

\* one node function run on state s: the state it leaves, the calls it made
\* and the exception that escaped it
StageOutcome(node, s, clock, failAt) ==
    CASE node = "analyze_query" ->
            [state |-> analyze_query(s, clock), made |-> <<>>, raised |-> "None"]
      [] node = "fetch_data" ->
            [state |-> fetch_data(s, clock, failAt).state,
             made |-> fetch_data(s, clock, failAt).made, raised |-> "None"]
      [] node = "analyze_fault" ->
            [state |-> analyze_fault(s), made |-> <<>>, raised |-> "None"]
      [] node = "generate_response" ->
            [state |-> generate_response(s, clock).state, made |-> <<>>,
             raised |-> generate_response(s, clock).raised]

\* the node after `node`, or the exit by the exception
AfterStage(node, outcome) ==
    IF outcome.raised = "None" THEN NextNode(node, outcome.state) ELSE "raised"

\* every invocation holding the one dict that the stage just wrote
OwnStateMutant(states, i, new) == [j \in DOMAIN states |-> new]

\* the states after invocation i's stage returned: the stage wrote the dict it
\* was handed, which is the invocation's own
OwnState(states, i, new) == [states EXCEPT ![i] = new]

PairInit ==
    /\ now = 0
    /\ \E q1 \in PairQueries, q2 \in PairQueries :
          state = <<InitialState(q1, now), InitialState(q2, now)>>
    /\ pc = <<"analyze_query", "analyze_query">>
    /\ calls = <<<<>>, <<>>>>
    /\ exc = <<"None", "None">>
    /\ trace = <<<<>>, <<>>>>

\* invocation i runs its next stage; the other one is wherever it is
PairStage(i) ==
    /\ pc[i] \notin {"END", "raised"}
    /\ \E failAt \in 0..MaxPairFailAt :
          /\ pc[i] # "fetch_data" => failAt = 0
          /\ pc[i] = "fetch_data" => failAt <= Len(PlannedCalls(state[i].query_analysis))
          /\ \E o \in {StageOutcome(pc[i], state[i], now, failAt)} :
                /\ state' = OwnState(state, i, o.state)
                /\ pc' = [pc EXCEPT ![i] = AfterStage(pc[i], o)]
                /\ calls' = [calls EXCEPT ![i] = @ \o o.made]
                /\ exc' = [exc EXCEPT ![i] = o.raised]
          /\ trace' = [trace EXCEPT ![i] =
                         Append(@, [node |-> pc[i], at |-> now, failAt |-> failAt])]
    /\ UNCHANGED now

FirstStage == PairStage(1)
SecondStage == PairStage(2)

PairNext == FirstStage \/ SecondStage \/ Tick

PairSpec == PairInit /\ [][PairNext]_vars

\* the invocation run with nothing else in flight: the same query, and in each
\* stage the clock reading and the raising call that `steps` names
RECURSIVE RunAlone(_, _, _)
RunAlone(s, node, steps) ==
    IF steps = <<>> \/ node \in {"END", "raised"} THEN [state |-> s, pc |-> node]
    ELSE LET o == StageOutcome(node, s, Head(steps).at, Head(steps).failAt)
         IN RunAlone(o.state, AfterStage(node, o), Tail(steps))

\* ------------------------------------------------------------------ claims
Terminal == {"END", "raised"}
Steps(h) == [i \in 1..Len(h) |-> h[i].step]
IsPrefix(a, b) == Len(a) <= Len(b) /\ SubSeq(b, 1, Len(a)) = a
FullPath == <<"analyze_query", "fetch_data", "analyze_fault", "generate_response">>
ShortPath == <<"analyze_query", "fetch_data", "generate_response">>
Failed == \E i \in 1..Len(calls) : calls[i].raised

\* C1: when fetch_data has completed, the node that runs next is analyze_fault
\* exactly when the state it left has the intent fault_diagnosis and no
\* diagnosis; in every other case it is generate_response.
C1_BranchAfterFetch ==
    [][pc = "fetch_data" /\ pc' # pc =>
         /\ pc' \in {"analyze_fault", "generate_response"}
         /\ (pc' = "analyze_fault") <=>
               (/\ state'.query_analysis # None
                /\ state'.query_analysis.intent = "fault_diagnosis"
                /\ state'.diagnosis = None)]_vars

C1_Witness ==
    /\ pc = "analyze_fault"
    /\ state.query_analysis.intent = "fault_diagnosis"
    /\ state.diagnosis = None

\* C2: every invocation ends, and the nodes it runs are analyze_query, fetch_data,
\* at most once analyze_fault, then generate_response, in this order; no node
\* runs twice and none runs after generate_response.
C2_TerminatesInStageOrder ==
    /\ [](/\ IsPrefix(trace, FullPath) \/ IsPrefix(trace, ShortPath)
          /\ pc \in Terminal => trace \in {FullPath, ShortPath})
    /\ [][(pc \in Terminal) => (trace' = trace)]_vars
    /\ <>(pc \in Terminal)

C2_Witness == pc = "END" /\ trace = FullPath

\* C3 (as claimed): at the end of an invocation in which no tool call raised,
\* the steps of execution_history are the nodes that ran, one entry per node, in
\* execution order.
C3_OneEntryPerStage ==
    (pc \in Terminal /\ ~Failed) => Steps(state.execution_history) = trace

\* C4: across every step the execution_history before the step is a prefix of
\* the execution_history after it.
C4_HistoryAppendOnly ==
    [][IsPrefix(state.execution_history, state'.execution_history)]_vars

C4_Witness == pc = "END" /\ Len(state.execution_history) = 3

\* srv-0020的状态是什么
PlainStatusQuery ==
    <<"s", "r", "v", "-", "0", "0", "2", "0",
      "u7684", "u72b6", "u6001", "u662f", "u4ec0", "u4e48">>

\* C5 (as claimed): the invocation on the plain status query of srv-0020, with no
\* tool call raising, ends with exactly the three history entries analyze_query,
\* fetch_data, generate_response.
C5_PlainStatusHistory ==
    (state.user_query = PlainStatusQuery /\ pc \in Terminal /\ ~Failed)
        => Steps(state.execution_history) = ShortPath

\* C6 (as claimed): no exception escapes generate_response, and when it has run
\* the response is a string.
C6_GenerateResponseNeverRaises ==
    /\ exc = "None"
    /\ pc # "raised"
    /\ ("generate_response" \in Range(trace) => state.response # NoneStr)

\* C7: when a tool call of fetch_data raises, fetch_data returns normally with
\* error holding the exception text, the raising call is the last call made and
\* every call was made once, the slots of the raising call and of the calls
\* planned after it are left as they were, no call is made later, and the
\* invocation goes on to run generate_response.
C7_FetchFailureIsContained ==
    /\ [][pc = "fetch_data" /\ Failed' =>
            LET plan == PlannedCalls(state.query_analysis)
                k == Len(calls')
            IN /\ exc' = "None"
               /\ pc' \in {"analyze_fault", "generate_response"}
               /\ state'.error = FetchFailedPrefix \o ToolFailure
               /\ calls' = [i \in 1..k |-> Made(plan[i], i = k)]
               /\ \A j \in k..Len(plan) : /\ state[plan[j].slot] = None
                                          /\ state'[plan[j].slot] = None]_vars
    /\ [][Failed => (calls' = calls)]_vars
    /\ (Failed ~> "generate_response" \in Range(trace))

C7_Witness ==
    /\ pc = "END"
    /\ Failed
    /\ Len(calls) = 2
    /\ state.diagnosis # None
    /\ state.server_info = None
    /\ state.response = ErrorPrefix \o FetchFailedPrefix \o ToolFailure

\* C8: when error is set as generate_response runs, it returns with response
\* equal to the error template filled with the error text, for every intent, for
\* an unset query_analysis, and for every content of the slots.
C8_ErrorShortCircuits ==
    [][pc = "call_generate_response" /\ pc' # pc /\ TruthyStr(state.error) =>
         /\ pc' = "returned"
         /\ exc' = "None"
         /\ state'.response = ErrorPrefix \o state.error]_vars

C8_Witness ==
    /\ pc = "returned"
    /\ state.query_analysis = None
    /\ state.server_info # None
    /\ state.error = UnitError
    /\ state.response = ErrorPrefix \o UnitError

\* C9: a run of generate_response makes no tool call and leaves every field of
\* the state other than response and execution_history as it was.
C9_GenerateResponseFrame ==
    [][pc = "call_generate_response" =>
         /\ calls' = calls
         /\ \A f \in DOMAIN state \ {"response", "execution_history"} :
               state'[f] = state[f]]_vars

C9_Witness ==
    /\ pc = "returned"
    /\ state.response # NoneStr
    /\ state.execution_history # <<>>
    /\ state.error = NoneStr
    /\ state.topology_info # None

\* the out-of-band failure reason analyze_fault finds in the state, NoneStr if none
OobFailureReason(s) ==
    IF /\ s.topology_info # None
       /\ HasPath(s.topology_info, <<"out_of_band_network", "connectivity", "is_connected">>)
       /\ ~s.topology_info.out_of_band_network.connectivity.is_connected
       /\ HasPath(s.topology_info, <<"out_of_band_network", "connectivity", "failure_reason">>)
    THEN s.topology_info.out_of_band_network.connectivity.failure_reason
    ELSE NoneStr

\* C10 (as claimed): when analyze_fault derives a diagnosis from a state holding
\* both a disconnected out-of-band path with a failure reason and an installation
\* log with an error summary, root_cause is the out-of-band failure reason.
C10_OobReasonFirst ==
    [][(/\ pc = "call_analyze_fault" /\ pc' = "returned"
        /\ state.query_analysis # None
        /\ state.query_analysis.intent = "fault_diagnosis"
        /\ state.diagnosis = None
        /\ OobFailureReason(state) # NoneStr
        /\ state.installation_logs # None
        /\ HasPath(state.installation_logs, <<"installation", "error_summary">>))
       => state'.diagnosis.root_cause = OobFailureReason(state)]_vars

\* the query contains one of the keywords, compared on the lowercased query
Mentions(keywords) == \E kw \in keywords : Contains(Lower(state.user_query), kw)

\* the rules of the analyzer in their fixed order: whether the query matches rule k
RuleMatches(k) ==
    CASE k = 1 -> Mentions(FaultKeywords)
      [] k = 2 -> Mentions(LogKeywords)
      [] k = 3 -> Mentions(TopologyKeywords)
      [] k = 4 -> Mentions(SwitchKeywords)
      [] k = 5 -> Mentions(ListKeywords) /\ Mentions({kw_server_cn})
      [] k = 6 -> /\ state.query_analysis # None
                  /\ "server_id" \in DOMAIN state.query_analysis.entities
      [] OTHER -> TRUE
RECURSIVE EarliestFrom(_)
EarliestFrom(k) == IF RuleMatches(k) THEN k ELSE EarliestFrom(k + 1)
EarliestRule == EarliestFrom(1)
RuleIntents ==
    <<{"fault_diagnosis"}, {"installation_log"}, {"rack_analysis", "server_topology"},
      {"switch_info"}, {"server_info"}, {"server_info"}, {"unknown"}>>
RuleConfidence == <<95, 90, 90, 90, 85, 80, 0>>      \* in hundredths

\* C11: when analyze_query has returned, the intent and the confidence are those
\* of the earliest rule the query matches in the order fault keywords, log
\* keywords, topology keywords, switch keywords, listing keywords with the server
\* token, extracted server id, else unknown: 0.95, 0.9, 0.9, 0.9, 0.85, 0.8, 0.0.
C11_FirstMatchingRule ==
    pc = "returned" =>
        \E k \in {EarliestRule} :
            /\ state.query_analysis.intent \in RuleIntents[k]
            /\ state.query_analysis.confidence = RuleConfidence[k]

\* a query matching the log, the listing and no earlier rule
C11_Witness ==
    /\ pc = "returned"
    /\ RuleMatches(2) /\ RuleMatches(5) /\ ~RuleMatches(1)
    /\ state.query_analysis.intent = "installation_log"
    /\ state.query_analysis.confidence = 90

\* 查看机柜rack-A02的网络拓扑
RackTopologyQuery ==
    <<"u67e5", "u770b", "u673a", "u67dc", "r", "a", "c", "k", "-", "A", "0", "2",
      "u7684", "u7f51", "u7edc", "u62d3", "u6251">>

\* C12: when the topology rule is the earliest rule the query matches, the intent
\* is rack_analysis if the query mentions a rack (机柜 or rack) and
\* server_topology otherwise, with confidence 0.9 in both cases; the query
\* 查看机柜rack-A02的网络拓扑 gives rack_analysis with rack_id rack-A02.
C12_TopologySubRoute ==
    /\ (pc = "returned" /\ EarliestRule = 3) =>
          /\ state.query_analysis.intent =
                IF Mentions({kw_rack_cn, kw_rack}) THEN "rack_analysis"
                ELSE "server_topology"
          /\ state.query_analysis.confidence = 90
    /\ (pc = "returned" /\ state.user_query = RackTopologyQuery) =>
          /\ state.query_analysis.intent = "rack_analysis"
          /\ "rack_id" \in DOMAIN state.query_analysis.entities
          /\ state.query_analysis.entities.rack_id = "rack-A02"

C12_Witness ==
    /\ pc = "returned"
    /\ state.user_query = RackTopologyQuery
    /\ EarliestRule = 3
    /\ state.query_analysis.intent = "rack_analysis"
    /\ state.query_analysis.entities.rack_id = "rack-A02"

\* a token starts at position i of q: the prefix, in any letter case when ic,
\* followed by at least one character of S
TokenStartsAt(q, i, prefix, ic, S) ==
    /\ i + Len(prefix) <= Len(q)
    /\ (IF ic THEN Lower(SubSeq(q, i, i + Len(prefix) - 1))
        ELSE SubSeq(q, i, i + Len(prefix) - 1)) = prefix
    /\ q[i + Len(prefix)] \in S
\* where the tokens with one of the prefixes start
TokenStarts(q, prefixes, ic, S) ==
    {i \in 1..Len(q) : \E prefix \in prefixes : TokenStartsAt(q, i, prefix, ic, S)}
\* the leftmost token as written in q: the prefix and every character of S after it
FirstToken(q, prefixes, ic, S) ==
    LET i == CHOOSE i \in TokenStarts(q, prefixes, ic, S) :
                 \A j \in TokenStarts(q, prefixes, ic, S) : i <= j
        prefix == CHOOSE prefix \in prefixes : TokenStartsAt(q, i, prefix, ic, S)
    IN SubSeq(q, i, RunEndIn(q, i + Len(prefix), S))

\* C13: when analyze_query has returned on a query that contains a token
\* srv-<digits> or server-<digits> in any letter case, entities.server_id is the
\* first such token exactly as the query writes it, whatever the intent.
C13_ServerIdAsWritten ==
    (pc = "returned" /\ TokenStarts(state.user_query, {lit_srv, lit_server}, TRUE, Digits) # {})
        => /\ "server_id" \in DOMAIN state.query_analysis.entities
           /\ state.query_analysis.entities.server_id =
                 Str(FirstToken(state.user_query, {lit_srv, lit_server}, TRUE, Digits))

\* an upper-case id in a query whose intent comes from a keyword rule
C13_Witness ==
    /\ pc = "returned"
    /\ TokenStarts(state.user_query, {lit_srv, lit_server}, TRUE, Digits) = {1}
    /\ state.query_analysis.entities.server_id = "SRV-0020"
    /\ state.query_analysis.intent = "fault_diagnosis"

\* C14 (as claimed): when analyze_query has returned on a query that contains a
\* token rack-<alphanumeric> in any letter case, entities.rack_id is that token
\* as written; on a query that has no such token and contains 机柜<token>,
\* entities.rack_id is rack-<token>.
C14_RackIdAnyCase ==
    pc = "returned" =>
        IF TokenStarts(state.user_query, {kw_rack_dash}, TRUE, AlnumChars) # {}
        THEN /\ "rack_id" \in DOMAIN state.query_analysis.entities
             /\ state.query_analysis.entities.rack_id =
                   Str(FirstToken(state.user_query, {kw_rack_dash}, TRUE, AlnumChars))
        ELSE TokenStarts(state.user_query, {kw_rack_cn}, FALSE, AlnumChars) # {}
             => /\ "rack_id" \in DOMAIN state.query_analysis.entities
                /\ state.query_analysis.entities.rack_id =
                      "rack-" \o Str(SubSeq(FirstToken(state.user_query, {kw_rack_cn},
                                                       FALSE, AlnumChars),
                                            Len(kw_rack_cn) + 1,
                                            Len(FirstToken(state.user_query, {kw_rack_cn},
                                                           FALSE, AlnumChars))))

\* 查看所有在线的服务器
OnlineListingQuery ==
    <<"u67e5", "u770b", "u6240", "u6709", "u5728", "u7ebf", "u7684", "u670d", "u52a1",
      "u5668">>

\* the keys of filters and the status the claim gives a listing query
ClaimedStatus ==
    IF Mentions({kw_online_cn, kw_online}) THEN {"online"}
    ELSE IF Mentions({kw_offline_cn, kw_offline}) THEN {"offline"}
    ELSE IF Mentions({kw_fault_cn, kw_failed}) THEN {"install_failed"}
    ELSE {}

\* C15: when analyze_query has returned, filters holds a status only if the
\* listing rule selected the intent (server_info at 0.85): online if the query
\* has an online word, else offline if it has an offline word, else
\* install_failed if it has a failure word, else nothing; under every other rule
\* filters is empty. 查看所有在线的服务器 gives server_info, 0.85, status online.
C15_StatusFilterOnlyWhenListing ==
    /\ pc = "returned" =>
          /\ DOMAIN state.query_analysis.filters \subseteq {"status"}
          /\ IF EarliestRule = 5
             THEN /\ state.query_analysis.intent = "server_info"
                  /\ state.query_analysis.confidence = 85
                  /\ {state.query_analysis.filters[k] :
                         k \in DOMAIN state.query_analysis.filters} = ClaimedStatus
             ELSE DOMAIN state.query_analysis.filters = {}
    /\ (pc = "returned" /\ state.user_query = OnlineListingQuery) =>
          /\ state.query_analysis.intent = "server_info"
          /\ state.query_analysis.confidence = 85
          /\ state.query_analysis.filters = [status |-> "online"]

\* a listing query with both an online and an offline word
C15_Witness ==
    /\ pc = "returned"
    /\ EarliestRule = 5
    /\ Mentions({kw_online_cn}) /\ Mentions({kw_offline_cn})
    /\ state.query_analysis.filters = [status |-> "online"]

\* the direct tool call that returned: its tool, its argument, its result
ToolReturned(tool) == pc = "returned" /\ calls # <<>> /\ calls[1].tool = tool
Result == calls[1].returned

\* C16 (as claimed): in the inventory of init_mock_data, get_rack_topology on
\* rack-A02, the rack of the forced out-of-band fault, returns alert and
\* recommended_action; on the three racks without the forced fault it returns
\* neither.
C16_ForcedFaultRackAlerts ==
    (ToolReturned("get_rack_topology") /\ calls[1].inventory.extra = 0) =>
        /\ calls[1].arg = "rack-A02" =>
              {"alert", "recommended_action"} \subseteq DOMAIN Result
        /\ calls[1].arg \in {"rack-A01", "rack-B01", "rack-B02"} =>
              {"alert", "recommended_action"} \cap DOMAIN Result = {}

\* the servers that carry rack id `rack` in the inventory the call read, and
\* those of them whose out-of-band path is connected
Carrying(rack) ==
    {n \in 1..NumServers :
        InventoryTopologies[calls[1].inventory][SrvId(n)].rack_id = rack}
OobConnectedIn(rack) ==
    {n \in Carrying(rack) :
        InventoryTopologies[calls[1].inventory][SrvId(n)]
            .out_of_band_connectivity.is_connected}

\* C17: get_rack_topology on an existing rack id returns alert and
\* recommended_action exactly when fewer than 20% of the servers carrying that
\* rack id are out-of-band connected (failure rate above 80%), neither of them
\* at exactly 80%, and total_servers is the number of servers it lists.
C17_AlertAboveEightyPercent ==
    (ToolReturned("get_rack_topology") /\ Carrying(calls[1].arg) # {}) =>
        /\ Result.total_servers = Cardinality(Carrying(calls[1].arg))
        /\ Result.total_servers = Len(Result.servers)
        /\ Result.out_of_band_connected = Cardinality(OobConnectedIn(calls[1].arg))
        /\ IF 5 * Cardinality(OobConnectedIn(calls[1].arg))
                < Cardinality(Carrying(calls[1].arg))
           THEN {"alert", "recommended_action"} \subseteq DOMAIN Result
           ELSE {"alert", "recommended_action"} \cap DOMAIN Result = {}

\* a rack just above the threshold: 23 of its 120 servers connected
C17_Witness ==
    /\ ToolReturned("get_rack_topology")
    /\ Result.total_servers = 120
    /\ Result.out_of_band_connected = 23
    /\ Result.alert = RackAlert
    /\ Result.recommended_action = RackAction

\* C18: analyze_installation_failure on an existing server whose status is not
\* install_failed returns a message and neither a diagnosis nor an error key;
\* on an install_failed server it returns a diagnosis with a root_cause and a
\* list of recommendations.
C18_DiagnosisOnlyWhenInstallFailed ==
    (ToolReturned("analyze_installation_failure") /\ calls[1].arg \in Range(SERVER_KEYS)) =>
        IF StatusOf(SeqNoOf(calls[1].arg)) # "install_failed"
        THEN /\ "message" \in DOMAIN Result
             /\ {"diagnosis", "error"} \cap DOMAIN Result = {}
        ELSE /\ "diagnosis" \in DOMAIN Result
             /\ {"root_cause", "recommendations"} \subseteq DOMAIN Result.diagnosis
             /\ Result.diagnosis.root_cause \in STRING
             /\ DOMAIN Result.diagnosis.recommendations
                   = 1..Len(Result.diagnosis.recommendations)

\* an install_failed server with a hardware log, diagnosed
C18_Witness ==
    /\ ToolReturned("analyze_installation_failure")
    /\ calls[1].arg = "srv-0040"
    /\ calls[1].inventory.extra = 0
    /\ Result.server_status = "install_failed"
    /\ Result.diagnosis.root_cause = "hardware fault"
    /\ Len(Result.diagnosis.recommendations) = 3

\* the diagnosis call was made on an install_failed server whose rack, in the
\* inventory the call read, is above the alert threshold
AlertedDiagnosis ==
    /\ ToolReturned("analyze_installation_failure")
    /\ calls[1].arg \in Range(SERVER_KEYS)
    /\ StatusOf(SeqNoOf(calls[1].arg)) = "install_failed"
    /\ LET rack == InventoryTopologies[calls[1].inventory][calls[1].arg].rack_id
       IN 5 * Cardinality(OobConnectedIn(rack)) < Cardinality(Carrying(rack))

\* what the installation log alone gives for the server: the diagnosis on the
\* generated inventory, and the summary of its latest log
LogDerived == analyze_installation_failure(MOCK_TOPOLOGIES, calls[1].arg, now).diagnosis
LatestLog == MOCK_INSTALLATION_LOGS[calls[1].arg][Len(MOCK_INSTALLATION_LOGS[calls[1].arg])]

\* C19: for an install_failed server whose rack triggers the rack alert, the
\* alert note and the rack's recommended action are the first two
\* recommendations, followed by the log-derived recommendations in their
\* order; root_cause is the infrastructure value; error_summary is still the
\* log's error summary.
C19_RackAlertLeadsRecommendations ==
    AlertedDiagnosis =>
        /\ Len(Result.diagnosis.recommendations) >= 2
        /\ Result.diagnosis.recommendations[1] = "note: " \o RackAlert
        /\ Result.diagnosis.recommendations[2] = RackAction
        /\ Tail(Tail(Result.diagnosis.recommendations)) = LogDerived.recommendations
        /\ LogDerived.root_cause \in {"hardware fault", "software dependency problem"}
        /\ Result.diagnosis.root_cause = InfrastructureCause
        /\ Result.error_summary = LatestLog.error_summary

\* srv-0020 (software log) in rack-A02 with 23 of 120 servers connected
C19_Witness ==
    /\ AlertedDiagnosis
    /\ calls[1].arg = "srv-0020"
    /\ calls[1].inventory = [rack |-> "rack-A02", extra |-> 53]
    /\ Len(Result.diagnosis.recommendations) = 6
    /\ Result.diagnosis.recommendations[3] = "update the package sources"
    /\ Result.diagnosis.root_cause = InfrastructureCause
    /\ Contains(Result.error_summary, kw_software_config_error)

\* the run ended on a fault_diagnosis query naming an install_failed server of
\* the rack whose out-of-band network init_mock_data takes down as a whole
FaultedRackDiagnosisRun ==
    /\ pc = "END"
    /\ Truthy(state.query_analysis)
    /\ state.query_analysis.intent = "fault_diagnosis"
    /\ "server_id" \in DOMAIN state.query_analysis.entities
    /\ state.query_analysis.entities.server_id \in Range(SERVER_KEYS)
    /\ LET n == SeqNoOf(state.query_analysis.entities.server_id)
       IN /\ StatusOf(n) = "install_failed"
          /\ OobFailureOf(n) = "rack uplink switch port fault"

\* a line of the response whose content, after the template's label or item
\* number, is `text`
ShownInResponse(text) ==
    \E i \in 1..Len(ResponseParts(state)) :
        ResponseParts(state)[i]
            \in {text, "\nroot cause: " \o text}
                \cup {Dec(k) \o ". " \o text : k \in 1..9}
                \cup {Dec(k) \o ". note: " \o text : k \in 1..9}

\* C20 (as claimed): the response to a fault_diagnosis query on an
\* install_failed server of the faulted rack contains the rack alert text and
\* the log-derived root cause, and its root-cause line shows the
\* infrastructure value.
C20_ResponseShowsAlertAndRootCause ==
    FaultedRackDiagnosisRun =>
        /\ state.response = Join(ResponseParts(state), "\n")
        /\ ShownInResponse(RackAlert)
        /\ ShownInResponse(
              analyze_installation_failure(
                  MOCK_TOPOLOGIES, state.query_analysis.entities.server_id, now)
                .diagnosis.root_cause)
        /\ \E i \in 1..Len(ResponseParts(state)) :
              ResponseParts(state)[i] = "\nroot cause: " \o InfrastructureCause

\* the keys of the store a tool looks its argument up in, in the inventory the
\* first call read
StoreKeys(tool) ==
    CASE tool = "get_server_details" -> DOMAIN MOCK_SERVERS
      [] tool = "get_server_topology" -> DOMAIN InventoryTopologies[calls[1].inventory]
      [] tool = "get_switch_info" -> DOMAIN MOCK_SWITCHES

\* C21: get_server_details, get_server_topology and get_switch_info called
\* with an id that is not in the inventory do not raise: each returns an error
\* key and a non-empty available_ids list of at most 5 ids that all exist in
\* the store, and leaves the store as it was.
C21_UnknownIdIsStructured ==
    (/\ pc = "returned"
     /\ calls[1].tool \in {"get_server_details", "get_server_topology", "get_switch_info"}
     /\ calls[1].arg \notin StoreKeys(calls[1].tool)) =>
        /\ ~calls[1].raised
        /\ {"error", "available_ids"} \subseteq DOMAIN Result
        /\ Result.available_ids # <<>>
        /\ Len(Result.available_ids) <= 5
        /\ Range(Result.available_ids) \subseteq StoreKeys(calls[1].tool)
        /\ calls[1].inventory_after = calls[1].inventory

\* the switch lookup of an id that no switch has
C21_Witness ==
    /\ ToolReturned("get_switch_info")
    /\ calls[1].arg = "sw-tor-999"
    /\ Result.error = "switch sw-tor-999 does not exist"
    /\ Result.available_ids
         = <<"sw-tor-001", "sw-tor-002", "sw-tor-003", "sw-tor-004", "sw-tor-005">>

\* C22 (as claimed): two calls of a tool with the same argument against an
\* unmodified store, made at any two times, return the same result, and
\* neither call modifies the store.
C22_ReadsAreIdempotent ==
    pc = "returned_again" =>
        /\ calls[2].returned = calls[1].returned
        /\ calls[1].inventory_after = calls[1].inventory
        /\ calls[2].inventory_after = calls[2].inventory

\* C24: in the inventory of init_mock_data a server has an installation log
\* if and only if its status is install_failed, and each such server has
\* exactly one log attempt, with status 'failed'; get_installation_logs
\* returns an installation for exactly those servers.
C24_LogIffInstallFailed ==
    /\ \A id \in DOMAIN MOCK_SERVERS :
          id \in DOMAIN MOCK_INSTALLATION_LOGS
            <=> MOCK_SERVERS[id].status = "install_failed"
    /\ \A id \in DOMAIN MOCK_INSTALLATION_LOGS :
          /\ id \in DOMAIN MOCK_SERVERS
          /\ Len(MOCK_INSTALLATION_LOGS[id]) = 1
          /\ MOCK_INSTALLATION_LOGS[id][1].status = "failed"
          /\ MOCK_INSTALLATION_LOGS[id][1].server_id = id
    /\ (ToolReturned("get_installation_logs") /\ calls[1].arg \in DOMAIN MOCK_SERVERS) =>
          IF MOCK_SERVERS[calls[1].arg].status = "install_failed"
          THEN "installation" \in DOMAIN Result /\ Result.installation.status = "failed"
          ELSE "installation" \notin DOMAIN Result /\ "message" \in DOMAIN Result

\* the log of an install_failed server read, and an online server has none
C24_Witness ==
    /\ ToolReturned("get_installation_logs")
    /\ calls[1].arg = "srv-0020"
    /\ MOCK_SERVERS["srv-0020"].status = "install_failed"
    /\ Result.installation.status = "failed"
    /\ MOCK_SERVERS["srv-0001"].status = "online"
    /\ "srv-0001" \notin DOMAIN MOCK_INSTALLATION_LOGS

\* the install_failed servers whose log carries the error summary `summary`
FailedWithSummary(summary) ==
    {id \in DOMAIN MOCK_INSTALLATION_LOGS :
        /\ MOCK_SERVERS[id].status = "install_failed"
        /\ MOCK_INSTALLATION_LOGS[id][1].error_summary = summary}

\* C27 (as claimed): in the inventory of init_mock_data each of the three
\* canned fault categories (hardware, network, software) is the category of
\* the log of at least one install_failed server, in the inventory that
\* get_installation_logs reads.
C27_EveryFaultCategoryOccurs ==
    ToolReturned("get_installation_logs") =>
        /\ FailedWithSummary(HardwareSummary) # {}
        /\ FailedWithSummary(NetworkSummary) # {}
        /\ FailedWithSummary(SoftwareSummary) # {}

\* the first subscript the template of a slot would fail on when the slot
\* holds `result`, the successful result of `tool`; <<>> when it reads only
\* what is there
MissingForTemplate(tool, result) ==
    CASE tool = "get_server_details" -> FirstMissing(result, ServerDetailReads)
      [] tool = "query_servers" ->
            IF FirstMissing(result, <<<<"total">>, <<"servers">>>>) # <<>>
            THEN FirstMissing(result, <<<<"total">>, <<"servers">>>>)
            ELSE FirstMissingIn(Take(result.servers, 10), ListItemReads)
      [] tool = "get_server_topology" -> FirstMissing(result, TopologyReads)
      [] tool = "get_rack_topology" ->
            FirstMissing(result,
                         RackReads \o (IF "alert" \in DOMAIN result
                                       THEN RackAlertReads ELSE <<>>))
      [] tool = "get_switch_info" -> FirstMissing(result, SwitchReads)
      [] tool = "get_installation_logs" ->
            IF "installation" \notin DOMAIN result THEN <<>>
            ELSE IF FirstMissing(result, LogReads) # <<>>
            THEN FirstMissing(result, LogReads)
            ELSE FirstMissingIn(LastN(result.installation.logs, 5), LogEntryReads)
      [] OTHER -> <<>>

\* C29 (as claimed): every field generate_response reads from a data slot is
\* present in the successful result of the tool that fetch_data fills the
\* slot with.
C29_TemplateReadsWhatToolsReturn ==
    (pc = "returned" /\ "error" \notin DOMAIN Result) =>
        MissingForTemplate(calls[1].tool, Result) = <<>>

\* C25 (as claimed): when the workflow completes, response is a non-empty
\* string; for the unknown intent it is the cannot-handle message, and for a
\* recognised intent with no data slot filled it is non-empty as well.
C25_ResponseNeverEmpty ==
    pc = "END" =>
        /\ state.response \notin {"", NoneStr}
        /\ (Truthy(state.query_analysis)
              /\ state.query_analysis.intent = unknown_intent
              /\ ~TruthyStr(state.error)) => state.response = CannotHandle

\* C26 (as claimed): once fetch_data has recorded an error, analyze_fault is
\* not executed and the state carries no diagnosis, whatever the intent.
C26_FetchErrorSkipsAnalysis ==
    (pc \in Terminal /\ Failed) =>
        /\ TruthyStr(state.error)
        /\ "analyze_fault" \notin Range(trace)
        /\ ~Truthy(state.diagnosis)

\* C28 (as claimed): when analyze_query has classified the query as
\* rack_analysis, entities holds a rack_id, and fetch_data, unless a call
\* raises, calls get_rack_topology and fills topology_info.
C28_RackAnalysisHasRackId ==
    (pc \in {"generate_response", "END", "raised"}
       /\ Truthy(state.query_analysis)
       /\ state.query_analysis.intent = "rack_analysis") =>
        /\ "rack_id" \in DOMAIN state.query_analysis.entities
        /\ Len(calls) = 1 /\ calls[1].tool = "get_rack_topology"
        /\ ~Failed => Truthy(state.topology_info)

\* C30: diagnosis is written at most once per invocation. A diagnosis that is
\* set is never changed afterwards; only fetch_data and analyze_fault set it,
\* and only for the intent fault_diagnosis; analyze_fault sets it with
\* confidence 'medium' and a non-empty recommendation list; for every other
\* intent it stays unset.
C30_DiagnosisWrittenOnce ==
    [][/\ Truthy(state.diagnosis) => state'.diagnosis = state.diagnosis
       /\ state'.diagnosis # state.diagnosis =>
             /\ pc \in {"fetch_data", "analyze_fault"}
             /\ Truthy(state.query_analysis)
             /\ state.query_analysis.intent = "fault_diagnosis"
             /\ pc = "analyze_fault" =>
                   /\ state'.diagnosis.confidence = "medium"
                   /\ state'.diagnosis.recommendations # <<>>
       /\ (Truthy(state'.query_analysis)
             /\ state'.query_analysis.intent # "fault_diagnosis") =>
                ~Truthy(state'.diagnosis)]_vars

\* a run in which analyze_fault attached its diagnosis and it reached the end
C30_Witness ==
    /\ pc = "END"
    /\ Truthy(state.diagnosis)
    /\ trace = FullPath
    /\ state.diagnosis.confidence = "medium"
    /\ state.diagnosis.recommendations = <<ContactSupport>>

\* invocation i run alone from its initial state, through the stages it has
\* run so far
Alone(i) ==
    RunAlone(InitialState(state[i].user_query, 0), "analyze_query", trace[i])

====
